---- MODULE Spec2Model ----
(***************************************************************************)
(* Query-plan optimization drivers of                                      *)
(* src/Processors/QueryPlan/Optimizations/optimizeTree.cpp:                *)
(* optimizeTreeFirstPass (explicit-stack fixpoint rewriting under a global *)
(* budget) and optimizeTreeSecondPass (ordered structural phases and the   *)
(* forced-projection checks).                                              *)
(*                                                                         *)
(* The plan is an arena of nodes (QueryPlan::Nodes): a sequence of records *)
(* [step, children]; a node is its index, the root is node 1.  Nodes are   *)
(* never destroyed, only unlinked.                                         *)
(***************************************************************************)
EXTENDS Integers, Sequences, FiniteSets, TLC

VARIABLES
    plan,                         \* the arena: Seq([step, children])
    settings,                     \* QueryPlanOptimizationSettings (read-only)
    stack,                        \* std::stack<Frame> / Stack
    pc,                           \* position in the running function
    error,                        \* the exception that ended the function
    rule_idx,                     \* position of the for loop over optimizations
    max_update_depth,             \* local of the first-pass loop body
    total_applied_optimizations,  \* first-pass budget counter
    fuel,                         \* changes the unconstrained rule may still report
    applied,                      \* history: every optimization.apply call, in order
    applied_projection_names,     \* second pass: std::unordered_set<String>
    has_reading_from_mt,          \* second pass
    read_from_local_parallel_replica_plan,  \* second pass
    calls,                        \* history: every call made by the second pass
    current_thread,               \* CurrentMemoryTracker: the ThreadStatus of each thread
    memory_tracker,               \* CurrentMemoryTracker: the shared MemoryTracker
    ledger,                       \* history: sizes of the successful alloc and free calls
    nullable                      \* ColumnNullable: null map and nested column

\* The state of the other components (CurrentMemoryTracker.cpp,
\* ColumnNullable.cpp), which the plan optimizer never touches.
componentVars == << current_thread, memory_tracker, ledger, nullable >>

vars == << plan, settings, stack, pc, error, rule_idx, max_update_depth,
           total_applied_optimizations, fuel, applied, applied_projection_names,
           has_reading_from_mt, read_from_local_parallel_replica_plan, calls,
           componentVars >>

\* The other components are not in use.
ComponentsIdle ==
    /\ current_thread = << >>
    /\ memory_tracker = << >>
    /\ ledger = << >>
    /\ nullable = << >>

\* The locals of optimizeTreeFirstPass and of optimizeTreeSecondPass.
firstPassVars == << rule_idx, max_update_depth, total_applied_optimizations, applied >>

secondPassVars == << applied_projection_names, has_reading_from_mt,
                     read_from_local_parallel_replica_plan, calls >>

(***************************************************************************)
(* Bounds of the model.                                                    *)
(***************************************************************************)
MaxBudget == 2

MaxFuel == 1

MaxDepth == 3

MaxMutLast(a, b) == b

Max(a, b) == IF a >= b THEN a ELSE b

Range(s) == { s[i] : i \in DOMAIN s }

(***************************************************************************)
(* Plans.                                                                  *)
(***************************************************************************)
N(s, c) == [step |-> s, children |-> c]

\* The nodes reachable from node n of arena p, in post-order (children in
\* list order, then the node).
RECURSIVE PostOrderFrom(_, _, _)
RECURSIVE PostOrder(_, _)
PostOrderFrom(p, cs, i) ==
    IF i > Len(cs) THEN << >>
    ELSE PostOrder(p, cs[i]) \o PostOrderFrom(p, cs, i + 1)

PostOrder(p, n) == PostOrderFrom(p, p[n].children, 1) \o << n >>

Root == 1

Linked(p) == Range(PostOrder(p, Root))

\* The plans the first pass is started on.
FirstPassPlans ==
    { << N("ReadFromMergeTree", << >>) >>,
      << N("Limit", <<2>>), N("Expression", <<3>>), N("Expression", <<4>>),
         N("ReadFromMergeTree", << >>) >>,
      << N("Limit", <<2>>), N("Filter", <<3>>), N("ReadFromMergeTree", << >>) >>,
      << N("Limit", <<2>>), N("Limit", <<3>>), N("Expression", <<4>>),
         N("ReadFromMergeTree", << >>) >>,
      << N("Union", <<2, 3, 4>>), N("ReadFromMergeTree", << >>),
         N("Limit", <<5>>), N("ReadFromMergeTree", << >>),
         N("ReadFromMergeTree", << >>) >>,
      << N("Join", <<2, 3>>), N("ReadFromMergeTree", << >>),
         N("Limit", <<4>>), N("Expression", <<5>>),
         N("ReadFromMergeTree", << >>) >> }

(***************************************************************************)
(* The registry of first-pass optimizations (getOptimizations()).  Each    *)
(* entry has an enablement flag of the settings and an apply function; an  *)
(* entry whose apply is null is skipped.                                   *)
(***************************************************************************)
Registry ==
    << [name |-> "mergeExpressions", initialized |-> TRUE],
       [name |-> "pushDownLimit",    initialized |-> TRUE],
       [name |-> "splitFilter",      initialized |-> TRUE],
       [name |-> "notInitialized",   initialized |-> FALSE],
       [name |-> "anyRewrite",       initialized |-> TRUE] >>

RuleNames == { Registry[i].name : i \in DOMAIN Registry }

\* The rules that are functions of the subtree they are given.
DeterministicRules == { "mergeExpressions", "pushDownLimit", "splitFilter" }

HasOnlyChild(p, n) == Len(p[n].children) = 1

\* Whether rule r changes the subtree of node n.
RuleApplies(p, r, n) ==
    CASE r = "mergeExpressions" ->
            /\ p[n].step = "Expression"
            /\ HasOnlyChild(p, n)
            /\ p[p[n].children[1]].step = "Expression"
      [] r = "pushDownLimit" ->
            /\ p[n].step = "Limit"
            /\ HasOnlyChild(p, n)
            /\ p[p[n].children[1]].step \in {"Expression", "Limit"}
      [] r = "splitFilter" -> p[n].step = "Filter"
      [] OTHER -> FALSE

\* The arena after rule r has changed the subtree of node n.
\*   mergeExpressions: the child is unlinked, the node takes its children;
\*   pushDownLimit: the limit moves below the expression (an adjacent limit
\*                  is absorbed);
\*   splitFilter: the node becomes an expression over a new node holding
\*                the remaining filter.
RuleRewrite(p, r, n) ==
    CASE r = "mergeExpressions" ->
            [p EXCEPT ![n].children = p[p[n].children[1]].children]
      [] r = "pushDownLimit" ->
            LET c == p[n].children[1] IN
            IF p[c].step = "Limit"
            THEN [p EXCEPT ![n].children = p[c].children]
            ELSE [p EXCEPT ![n].step = "Expression", ![c].step = "Limit"]
      [] r = "splitFilter" ->
            Append([p EXCEPT ![n].step = "Expression",
                             ![n].children = << Len(p) + 1 >>],
                   N("PartialFilter", p[n].children))
      [] OTHER -> p

\* The update depth rule r reports when it changes a subtree: the number of
\* layers, counted from the node, that it has changed.
RuleDepth(p, r, n) ==
    CASE r = "mergeExpressions" -> 1
      [] r = "pushDownLimit" -> IF p[p[n].children[1]].step = "Limit" THEN 1 ELSE 2
      [] r = "splitFilter" -> 2
      [] OTHER -> 0

\* The outcomes of optimization.apply(frame.node, nodes, extra_settings):
\* the new arena, the reported update depth and the fuel left.
ApplyOutcomes(p, r, n, f) ==
    IF r \in DeterministicRules
    THEN IF RuleApplies(p, r, n)
         THEN { [plan |-> RuleRewrite(p, r, n), depth |-> RuleDepth(p, r, n), fuel |-> f] }
         ELSE { [plan |-> p, depth |-> 0, fuel |-> f] }
    ELSE { [plan |-> p, depth |-> 0, fuel |-> f] }
         \cup { [plan |-> [p EXCEPT ![n].step = "Rewritten"], depth |-> d, fuel |-> f - 1] :
                d \in IF f > 0 THEN 1..MaxDepth ELSE {} }

(***************************************************************************)
(* optimizeTreeFirstPass                                                   *)
(***************************************************************************)
Frame(n, d) == [node |-> n, depth_limit |-> d, next_child |-> 0]

Top == stack[Len(stack)]

Pop(s) == SubSeq(s, 1, Len(s) - 1)

SetTop(s, f) == [s EXCEPT ![Len(s)] = f]

\* line 63-66: the frame descends into its next child.
DescendsMutNoLimit(p, f) == f.next_child < Len(p[f.node].children)

Descends(p, f) ==
    /\ f.depth_limit # 1
    /\ f.next_child < Len(p[f.node].children)

\* line 70: the child the frame descends into.
NextChildNodeMutReversed(p, f) ==
    p[f.node].children[Len(p[f.node].children) - f.next_child]

NextChildNode(p, f) == p[f.node].children[f.next_child + 1]

\* line 71: the depth limit handed to a child frame.
ChildDepthLimitMutKeep(d) == d

ChildDepthLimit(d) == IF d # 0 THEN d - 1 ELSE 0

\* line 84-89: the optimization is enabled and has an apply function.
IsAppliedMutIgnoreFlag(opt, s) == opt.initialized

IsApplied(opt, s) == opt.name \in s.enabled /\ opt.initialized

\* line 82-89: the for loop skips (continue) the optimizations that are not
\* applied; the position of the next one that is, from position i on, or
\* past the end of the registry.
RECURSIVE NextRule(_, _)
NextRule(i, s) ==
    IF i > Len(Registry) \/ IsApplied(Registry[i], s) THEN i
    ELSE NextRule(i + 1, s)

\* line 91: the budget check made before every application.
BudgetExceededMutNoZero(max, total) == max < total

BudgetExceededMutNever(max, total) == FALSE

BudgetExceeded(max, total) == max # 0 /\ max < total

\* line 93-98: how the pass ends when the budget is exceeded.
BudgetOutcomeMutThrow(is_explain) == "thrown"

BudgetOutcome(is_explain) == IF is_explain THEN "returned" ELSE "thrown"

\* line 104-105: the counter after an application that reported update_depth.
CountAppliedMutAlways(total, update_depth) == total + 1

CountApplied(total, update_depth) ==
    IF update_depth # 0 THEN total + 1 ELSE total

\* line 110-118: the stack after all optimizations were tried on the top frame.
AfterRulesMutPop(s, depth) == Pop(s)

AfterRulesMutAlwaysAgain(s, depth) ==
    SetTop(s, [s[Len(s)] EXCEPT !.depth_limit = depth, !.next_child = 0])

AfterRulesMutShallow(s, depth) ==
    IF depth > 1
    THEN SetTop(s, [s[Len(s)] EXCEPT !.depth_limit = depth - 1, !.next_child = 0])
    ELSE Pop(s)

AfterRulesMutRestart(s, depth) ==
    IF depth # 0 THEN << Frame(Root, 0) >> ELSE Pop(s)

AfterRules(s, depth) ==
    IF depth # 0
    THEN SetTop(s, [s[Len(s)] EXCEPT !.depth_limit = depth, !.next_child = 0])
    ELSE Pop(s)

Settings ==
    [ optimize_plan : BOOLEAN,
      is_explain : BOOLEAN,
      max_optimizations_to_apply : 0..MaxBudget,
      enabled : SUBSET RuleNames,
      plan0 : FirstPassPlans ]

Init ==
    /\ settings \in Settings
    /\ plan = settings.plan0
    /\ fuel = (IF "anyRewrite" \in settings.enabled THEN MaxFuel ELSE 0)
    /\ stack = << >>
    /\ pc = "start"
    /\ error = "none"
    /\ rule_idx = 0
    /\ max_update_depth = 0
    /\ total_applied_optimizations = 0
    /\ applied = << >>
    /\ applied_projection_names = {}
    /\ has_reading_from_mt = FALSE
    /\ read_from_local_parallel_replica_plan = FALSE
    /\ calls = << >>
    /\ ComponentsIdle

\* line 26: the pass runs when optimize_plan is set.
PassEnabledMutAlways(s) == TRUE

PassEnabled(s) == s.optimize_plan

\* line 26-47
Start ==
    /\ pc = "start"
    /\ IF ~PassEnabled(settings)
       THEN pc' = "returned" /\ stack' = stack
       ELSE pc' = "loop" /\ stack' = << Frame(Root, 0) >>
    /\ UNCHANGED << plan, settings, error, rule_idx, max_update_depth,
                    total_applied_optimizations, fuel, applied >>
    /\ UNCHANGED << secondPassVars, componentVars >>

\* line 57: the loop ends when the stack is empty.
Return ==
    /\ pc = "loop"
    /\ stack = << >>
    /\ pc' = "returned"
    /\ UNCHANGED << plan, settings, stack, error, rule_idx, max_update_depth,
                    total_applied_optimizations, fuel, applied >>
    /\ UNCHANGED << secondPassVars, componentVars >>

\* line 63-76
Descend ==
    /\ pc = "loop"
    /\ stack # << >>
    /\ Descends(plan, Top)
    /\ stack' = Append(SetTop(stack, [Top EXCEPT !.next_child = @ + 1]),
                       Frame(NextChildNode(plan, Top),
                             ChildDepthLimit(Top.depth_limit)))
    /\ UNCHANGED << plan, settings, pc, error, rule_idx, max_update_depth,
                    total_applied_optimizations, fuel, applied >>
    /\ UNCHANGED << secondPassVars, componentVars >>

\* line 79-89: the loop body starts at the first optimization that is applied.
BeginRules ==
    /\ pc = "loop"
    /\ stack # << >>
    /\ ~Descends(plan, Top)
    /\ max_update_depth' = 0
    /\ rule_idx' = NextRule(1, settings)
    /\ pc' = "rules"
    /\ UNCHANGED << plan, settings, stack, error, total_applied_optimizations,
                    fuel, applied >>
    /\ UNCHANGED << secondPassVars, componentVars >>

\* line 91-99
BudgetStop ==
    /\ pc = "rules"
    /\ rule_idx <= Len(Registry)
    /\ BudgetExceeded(settings.max_optimizations_to_apply, total_applied_optimizations)
    /\ pc' = BudgetOutcome(settings.is_explain)
    /\ error' = IF pc' = "thrown" THEN "TOO_MANY_QUERY_PLAN_OPTIMIZATIONS" ELSE error
    /\ UNCHANGED << plan, settings, stack, rule_idx, max_update_depth,
                    total_applied_optimizations, fuel, applied >>
    /\ UNCHANGED << secondPassVars, componentVars >>

\* line 102-106
ApplyRule ==
    /\ pc = "rules"
    /\ rule_idx <= Len(Registry)
    /\ ~BudgetExceeded(settings.max_optimizations_to_apply, total_applied_optimizations)
    /\ \E out \in ApplyOutcomes(plan, Registry[rule_idx].name, Top.node, fuel) :
          /\ plan' = out.plan
          /\ fuel' = out.fuel
          /\ total_applied_optimizations' =
                CountApplied(total_applied_optimizations, out.depth)
          /\ max_update_depth' = Max(max_update_depth, out.depth)
          /\ applied' = Append(applied, [node |-> Top.node,
                                         rule |-> Registry[rule_idx].name,
                                         depth |-> out.depth])
    /\ rule_idx' = NextRule(rule_idx + 1, settings)
    /\ UNCHANGED << settings, stack, pc, error >>
    /\ UNCHANGED << secondPassVars, componentVars >>

\* line 109-118
EndRules ==
    /\ pc = "rules"
    /\ rule_idx > Len(Registry)
    /\ stack' = AfterRules(stack, max_update_depth)
    /\ pc' = "loop"
    /\ UNCHANGED << plan, settings, error, rule_idx, max_update_depth,
                    total_applied_optimizations, fuel, applied >>
    /\ UNCHANGED << secondPassVars, componentVars >>

Next ==
    \/ Start
    \/ Return
    \/ Descend
    \/ BeginRules
    \/ BudgetStop
    \/ ApplyRule
    \/ EndRules

Spec == Init /\ [][Next]_vars

FairSpec == Spec /\ WF_vars(Next)

(***************************************************************************)
(* Properties of optimizeTreeFirstPass.                                    *)
(***************************************************************************)
Terminated == pc \in {"returned", "thrown"}

\* The number of optimization.apply calls that reported a change.
Changes == Cardinality({ i \in DOMAIN applied : applied[i].depth # 0 })

Budget == settings.max_optimizations_to_apply

\* The registry entries that are enabled and have an apply function.
EnabledInitialized ==
    { Registry[i].name :
        i \in { j \in DOMAIN Registry :
                  Registry[j].initialized /\ Registry[j].name \in settings.enabled } }

\* The nodes rule r was applied to, in the order of the calls.
AppliedTo(r) ==
    LET ByRule(e) == e.rule = r
        hits == SelectSeq(applied, ByRule)
    IN  [i \in DOMAIN hits |-> hits[i].node]

\* C1: with no rule enabled the first pass never calls an apply function,
\* never changes the arena (same nodes, same children lists, same steps),
\* raises nothing, and returns.
C1_NoRuleEnabledLeavesPlanUnchanged ==
    /\ [](settings.enabled = {}
            => applied = << >> /\ plan = settings.plan0 /\ error = "none")
    /\ (settings.enabled = {}) ~> (pc = "returned" /\ stack = << >>)

C1_Witness ==
    /\ settings.enabled = {}
    /\ settings.optimize_plan
    /\ pc = "returned"
    /\ Len(plan) >= 5

\* C2: when only finitely many applications report a change the first pass
\* terminates, and with max_optimizations_to_apply = 0 it does so by leaving
\* the loop with an empty stack.
C2_FirstPassTerminates ==
    <>(/\ Terminated
       /\ (Budget = 0 => pc = "returned" /\ stack = << >>))

C2_Witness ==
    /\ Budget = 0
    /\ pc = "returned"
    /\ stack = << >>
    /\ Changes >= 2
    /\ \E i \in DOMAIN applied : applied[i].depth >= 2

\* C3: in normal mode with a budget K > 0, once K + 1 applications have
\* reported a change the pass does not return normally: it ends with the
\* TOO_MANY_QUERY_PLAN_OPTIMIZATIONS error.
C3_BudgetErrorInNormalMode ==
    /\ [](~settings.is_explain /\ Budget > 0 /\ Changes > Budget
            => pc # "returned")
    /\ [](pc = "thrown" => error = "TOO_MANY_QUERY_PLAN_OPTIMIZATIONS")
    /\ (~settings.is_explain /\ Budget > 0 /\ Changes > Budget)
          ~> (pc = "thrown")

C3_Witness ==
    /\ ~settings.is_explain
    /\ Budget > 0
    /\ Changes = Budget + 1
    /\ pc = "thrown"

\* C4: in explain mode with a budget K > 0 the number of applications that
\* reported a change never exceeds K.
C4_AtMostBudgetChangesInExplain ==
    (settings.is_explain /\ Budget > 0) => Changes <= Budget

\* C5: in explain mode the pass never raises; once the budget is exceeded no
\* further optimization is applied, the arena keeps the changes already made,
\* and the pass returns.
C5_ExplainStopsSilently ==
    /\ [](settings.is_explain => pc # "thrown" /\ error = "none")
    /\ [][(settings.is_explain /\ Budget > 0 /\ Changes > Budget)
            => (applied' = applied /\ plan' = plan)]_vars
    /\ (settings.is_explain /\ Budget > 0 /\ Changes > Budget)
          ~> (pc = "returned")

C5_Witness ==
    /\ settings.is_explain
    /\ Budget > 0
    /\ Changes > Budget
    /\ pc = "returned"
    /\ stack # << >>
    /\ plan # settings.plan0

\* C6: when no application reports a change, every applied rule has been
\* applied to every node exactly once, in post-order, children in list order.
C6_PostOrderOncePerNode ==
    (pc = "returned" /\ settings.optimize_plan /\ Changes = 0)
        => \A r \in EnabledInitialized : AppliedTo(r) = PostOrder(plan, Root)

C6_Witness ==
    /\ pc = "returned"
    /\ settings.optimize_plan
    /\ Changes = 0
    /\ Cardinality(EnabledInitialized) >= 2
    /\ Len(plan[Root].children) >= 3

\* C7: when the pass leaves the loop (the stack is empty) and every enabled
\* rule is a function of the subtree it is given, no enabled rule would
\* change the subtree of any node of the final plan.
C7_GlobalFixpoint ==
    (pc = "returned" /\ stack = << >> /\ settings.optimize_plan
        /\ "anyRewrite" \notin settings.enabled)
        => \A n \in Linked(plan) :
              \A r \in settings.enabled \cap DeterministicRules :
                  ~RuleApplies(plan, r, n)

C7_Witness ==
    /\ pc = "returned"
    /\ stack = << >>
    /\ "anyRewrite" \notin settings.enabled
    /\ Changes >= 3
    /\ \E i \in DOMAIN applied : applied[i].depth = 2

\* C8: with max_optimizations_to_apply = 0 the pass never raises and never
\* returns before the stack is empty, in normal and in explain mode.
C8_ZeroBudgetIsUnlimited ==
    Budget = 0
        => /\ pc # "thrown"
           /\ error = "none"
           /\ (pc = "returned" => stack = << >>)

C8_Witness ==
    /\ Budget = 0
    /\ pc = "returned"
    /\ Changes >= 3

(***************************************************************************)
(* optimizeTreeSecondPass                                                  *)
(*                                                                         *)
(* The optimizations it calls are not part of these sources.  A call is    *)
(* recorded in calls; the ones that decide the traversal (the projection   *)
(* optimizations, lazy materialization, the splice of a local plan) also   *)
(* act on the plan and on the stack.                                       *)
(***************************************************************************)
MaxProjectionFuel == 3

ProjectionNames == {"p1", "p2"}

\* The flags that switch one call of the second pass on or off.
PhaseFlags ==
    { "optimize_prewhere", "read_in_order", "distinct_in_order",
      "merge_expressions", "remove_redundant_sorting", "aggregation_in_order",
      "optimize_lazy_materialization", "query_plan_join_shard_by_pk_ranges" }

\* All flags off, every flag on alone, all flags on.
PhaseFlagSets ==
    { S \in SUBSET PhaseFlags : Cardinality(S) <= 1 \/ S = PhaseFlags }

\* The plans the second pass is started on.
SecondPassPlans ==
    { << N("ReadFromMergeTree", << >>) >>,
      << N("Limit", <<2>>), N("ReadFromStorage", << >>) >>,
      << N("Aggregating", <<2>>), N("Filter", <<3>>),
         N("ReadFromMergeTree", << >>) >>,
      << N("Join", <<2, 3>>), N("ReadFromLocalParallelReplica", << >>),
         N("ReadFromStorage", << >>) >>,
      << N("Expression", <<2>>), N("JoinLogical", <<3, 4>>),
         N("ReadFromMergeTree", << >>),
         N("ReadFromLocalParallelReplica", << >>) >> }

\* The optimized plan a local-replica read step hands out
\* (extractQueryPlan, then optimize).
LocalPlan == << N("Sorting", <<2>>), N("ReadFromMergeTree", << >>) >>

SecondPassSettings ==
    { [ optimize_prewhere |-> "optimize_prewhere" \in S,
        read_in_order |-> "read_in_order" \in S,
        distinct_in_order |-> "distinct_in_order" \in S,
        merge_expressions |-> "merge_expressions" \in S,
        remove_redundant_sorting |-> "remove_redundant_sorting" \in S,
        aggregation_in_order |-> "aggregation_in_order" \in S,
        optimize_lazy_materialization |-> "optimize_lazy_materialization" \in S,
        query_plan_join_shard_by_pk_ranges |->
            "query_plan_join_shard_by_pk_ranges" \in S,
        optimize_projection |-> op,
        force_use_projection |-> fu,
        force_projection_name |-> fn,
        is_explain |-> ex,
        max_optimizations_to_apply |-> k,
        plan0 |-> p ] :
      S \in PhaseFlagSets, op \in BOOLEAN, fu \in BOOLEAN, fn \in {"", "p1"},
      ex \in BOOLEAN, k \in 0..MaxBudget, p \in SecondPassPlans }

PlanFrame(n) == [node |-> n, next_child |-> 0]

Call(fn, n, r) == [fn |-> fn, node |-> n, result |-> r]

When(cond, s) == IF cond THEN s ELSE << >>

Bool(b) == IF b THEN "true" ELSE "false"

\* "Traverse all children first": the top frame has a child left.
HasNextChildMutSkipLast(p, f) == f.next_child + 1 < Len(p[f.node].children)

HasNextChild(p, f) == f.next_child < Len(p[f.node].children)

\* The child is queued and the cursor of the frame moves on.
PushNextChild(s, p) ==
    LET f == s[Len(s)] IN
    Append(SetTop(s, [f EXCEPT !.next_child = @ + 1]),
           PlanFrame(p[f.node].children[f.next_child + 1]))

\* The end of a loop body: the next child is queued, or the frame is popped.
Advance(s, p) == IF HasNextChild(p, s[Len(s)]) THEN PushNextChild(s, p) ELSE Pop(s)

\* QueryPlan::replaceNodeWithPlan: node n takes the step and the children of
\* the root of plan q, whose other nodes join the arena.
ReplaceNodeWithPlanMutNoShift(p, n, q) ==
    [p EXCEPT ![n] = q[1]] \o [i \in 1..(Len(q) - 1) |-> q[i + 1]]

ReplaceNodeWithPlan(p, n, q) ==
    LET moved(c) == [i \in DOMAIN c |-> Len(p) + c[i] - 1]
        node(i) == N(q[i].step, moved(q[i].children))
    IN  [p EXCEPT ![n] = node(1)] \o [i \in 1..(Len(q) - 1) |-> node(i + 1)]

\* line 238: has_reading_from_mt |= typeid_cast<const ReadFromMergeTree *>(...)
SeenReadingMutAssign(seen, step) == step = "ReadFromMergeTree"

SeenReading(seen, step) == seen \/ step = "ReadFromMergeTree"

\* The outcomes of optimizeUseAggregateProjections on node n: nothing, or a
\* projection is applied and the aggregation reads from it.
AggregateProjectionOutcomes(p, n, f) ==
    { [plan |-> p, name |-> "", fuel |-> f] }
    \cup { [plan |-> [p EXCEPT ![n] = N("ReadFromMergeTree", << >>)],
            name |-> nm, fuel |-> f - 1] :
           nm \in IF p[n].step = "Aggregating" /\ f > 0 THEN ProjectionNames ELSE {} }

\* optimizeUseNormalProjections(stack, nodes) can apply a projection to the
\* reading step on top of the stack.
NormalProjectionApplies(p, s, f) ==
    /\ f > 0
    /\ Len(s) >= 2
    /\ p[s[Len(s)].node].step = "ReadFromMergeTree"

\* The stacks it can leave behind: the frames above an ancestor are removed
\* ("Stack is updated after this optimization").
NormalProjectionStacks(s) == { SubSeq(s, 1, k) : k \in 1..(Len(s) - 1) }

\* The plan it leaves behind: the child the top frame of s2 was visiting is
\* replaced by a new node that reads from the projection.
NormalProjectionPlan(p, s2) ==
    LET f == s2[Len(s2)] IN
    Append([p EXCEPT ![f.node].children[f.next_child] = Len(p) + 1],
           N("ReadFromMergeTree", << >>))

\* line 269: the projection budget check.
ProjectionBudgetExceeded(max, names) == max # 0 /\ max < Cardinality(names)

\* line 272: the budget error is for normal mode only
\* ("Limit only first pass in EXPLAIN mode").
ProjectionBudgetThrowsMutAlways(is_explain) == TRUE

ProjectionBudgetThrows(is_explain) == ~is_explain

\* line 317
ProjectionNotUsedMutNoScan(s, has_mt, names) ==
    s.force_use_projection /\ names = {}

ProjectionNotUsed(s, has_mt, names) ==
    s.force_use_projection /\ has_mt /\ names = {}

\* line 322
NamedProjectionNotUsedMutEmpty(s, has_mt, names) ==
    s.force_projection_name # "" /\ has_mt /\ names = {}

NamedProjectionNotUsedMutExplain(s, has_mt, names) ==
    /\ ~s.is_explain
    /\ s.force_projection_name # ""
    /\ has_mt
    /\ s.force_projection_name \notin names

NamedProjectionNotUsed(s, has_mt, names) ==
    /\ s.force_projection_name # ""
    /\ has_mt
    /\ s.force_projection_name \notin names

\* line 125-130
SecondPassInit ==
    /\ settings \in SecondPassSettings
    /\ plan = settings.plan0
    /\ fuel = MaxProjectionFuel
    /\ stack = << PlanFrame(Root) >>
    /\ pc = "first"
    /\ error = "none"
    /\ rule_idx = 0
    /\ max_update_depth = 0
    /\ total_applied_optimizations = 0
    /\ applied = << >>
    /\ applied_projection_names = {}
    /\ has_reading_from_mt = FALSE
    /\ read_from_local_parallel_replica_plan = FALSE
    /\ calls = << >>
    /\ ComponentsIdle

\* line 132-155, with the three calls made at the first visit of a node only.
FirstTraversalMutFirstVisitOnly ==
    /\ pc = "first"
    /\ stack # << >>
    /\ calls' = calls
                \o When(Top.next_child = 0,
                        << Call("optimizePrimaryKeyConditionAndLimit", Top.node, ""),
                           Call("updateQueryConditionCache", Top.node, "") >>)
                \o When(Top.next_child = 0 /\ settings.optimize_prewhere,
                        << Call("optimizePrewhere", Top.node, "") >>)
    /\ stack' = Advance(stack, plan)
    /\ UNCHANGED << plan, settings, pc, error, fuel, applied_projection_names,
                    has_reading_from_mt, read_from_local_parallel_replica_plan >>
    /\ UNCHANGED << firstPassVars, componentVars >>

\* line 140-141: optimizePrewhere is called when optimize_prewhere is set.
PrewhereCallsMutAlways(enabled, n) == << Call("optimizePrewhere", n, "") >>

PrewhereCalls(enabled, n) ==
    When(enabled, << Call("optimizePrewhere", n, "") >>)

\* line 132-155
FirstTraversal ==
    /\ pc = "first"
    /\ stack # << >>
    /\ calls' = calls
                \o << Call("optimizePrimaryKeyConditionAndLimit", Top.node, ""),
                      Call("updateQueryConditionCache", Top.node, "") >>
                \o PrewhereCalls(settings.optimize_prewhere, Top.node)
    /\ stack' = Advance(stack, plan)
    /\ UNCHANGED << plan, settings, pc, error, fuel, applied_projection_names,
                    has_reading_from_mt, read_from_local_parallel_replica_plan >>
    /\ UNCHANGED << firstPassVars, componentVars >>

\* line 157-159, without waiting for the first loop to end.
HashTableCacheKeysMutEarly ==
    /\ pc = "first"
    /\ calls' = Append(calls, Call("calculateHashTableCacheKeys", Root, ""))
    /\ stack' = << PlanFrame(Root) >>
    /\ pc' = "join"
    /\ UNCHANGED << plan, settings, error, fuel, applied_projection_names,
                    has_reading_from_mt, read_from_local_parallel_replica_plan >>
    /\ UNCHANGED << firstPassVars, componentVars >>

\* line 157-159
HashTableCacheKeys ==
    /\ pc = "first"
    /\ stack = << >>
    /\ calls' = Append(calls, Call("calculateHashTableCacheKeys", Root, ""))
    /\ stack' = << PlanFrame(Root) >>
    /\ pc' = "join"
    /\ UNCHANGED << plan, settings, error, fuel, applied_projection_names,
                    has_reading_from_mt, read_from_local_parallel_replica_plan >>
    /\ UNCHANGED << firstPassVars, componentVars >>

\* line 164: the join optimizations run in the iteration that finds the
\* child cursor of the top frame at 0.
HandledByJoinTraversalMutAlways(f) == TRUE

HandledByJoinTraversal(f) == f.next_child = 0

\* line 160-188
JoinTraversal ==
    /\ pc = "join"
    /\ stack # << >>
    /\ LET n == Top.node
           has_join_logical == plan[n].step = "JoinLogical"
       IN  IF HandledByJoinTraversal(Top)
           THEN /\ calls' = calls
                      \o << Call("optimizeJoinLogical", n, ""),
                            Call("convertLogicalJoinToPhysical", n,
                                 Bool(has_join_logical)) >>
                      \o When(~has_join_logical,
                              << Call("optimizeJoinLegacy", n, "") >>)
                      \o When(settings.read_in_order,
                              << Call("optimizeReadInOrder", n, "") >>)
                      \o When(settings.distinct_in_order,
                              << Call("optimizeDistinctInOrder", n, "") >>)
                /\ plan' = IF has_join_logical
                           THEN [plan EXCEPT ![n].step = "Join"]
                           ELSE plan
           ELSE UNCHANGED << calls, plan >>
    /\ stack' = Advance(stack, plan')
    /\ UNCHANGED << settings, pc, error, fuel, applied_projection_names,
                    has_reading_from_mt, read_from_local_parallel_replica_plan >>
    /\ UNCHANGED << firstPassVars, componentVars >>

\* line 205: typeid_cast<ReadFromLocalParallelReplicaStep *>(frame.node->step)
IsLocalReplicaReadMutNever(step) == FALSE

IsLocalReplicaRead(step) == step = "ReadFromLocalParallelReplica"

\* line 190-192
SpliceBegin ==
    /\ pc = "join"
    /\ stack = << >>
    /\ read_from_local_parallel_replica_plan' = FALSE
    /\ stack' = << PlanFrame(Root) >>
    /\ pc' = "splice"
    /\ UNCHANGED << plan, settings, error, fuel, applied_projection_names,
                    has_reading_from_mt, calls >>
    /\ UNCHANGED << firstPassVars, componentVars >>

\* line 193-222
SpliceTraversal ==
    /\ pc = "splice"
    /\ stack # << >>
    /\ IF HasNextChild(plan, Top)
       THEN /\ stack' = PushNextChild(stack, plan)
            /\ UNCHANGED << plan, calls, read_from_local_parallel_replica_plan >>
       ELSE /\ IF IsLocalReplicaRead(plan[Top.node].step)
               THEN /\ read_from_local_parallel_replica_plan' = TRUE
                    /\ plan' = ReplaceNodeWithPlan(plan, Top.node, LocalPlan)
                    /\ calls' = calls
                          \o << Call("replaceNodeWithPlan", Top.node, "") >>
                          \o When(settings.merge_expressions,
                                  << Call("tryMergeExpressions", Top.node, "") >>)
               ELSE UNCHANGED << plan, calls, read_from_local_parallel_replica_plan >>
            /\ stack' = Pop(stack)
    /\ UNCHANGED << settings, pc, error, fuel, applied_projection_names,
                    has_reading_from_mt >>
    /\ UNCHANGED << firstPassVars, componentVars >>

\* line 224: read_from_local_parallel_replica_plan && remove_redundant_sorting
RemovesRedundantSortingMutNoSplice(spliced, s) == s.remove_redundant_sorting

RemovesRedundantSorting(spliced, s) == spliced /\ s.remove_redundant_sorting

\* line 223-228
RemoveRedundantSorting ==
    /\ pc = "splice"
    /\ stack = << >>
    /\ calls' = calls
          \o When(RemovesRedundantSorting(read_from_local_parallel_replica_plan,
                                          settings),
                  << Call("tryRemoveRedundantSorting", Root, "") >>)
    /\ stack' = << PlanFrame(Root) >>
    /\ pc' = "projection"
    /\ UNCHANGED << plan, settings, error, fuel, applied_projection_names,
                    has_reading_from_mt, read_from_local_parallel_replica_plan >>
    /\ UNCHANGED << firstPassVars, componentVars >>

\* line 236: the optimizations of the first part of the loop body run in the
\* iteration that finds the child cursor of the top frame at 0.
HandledByProjectionTraversalMutAlways(f) == TRUE

HandledByProjectionTraversal(f) == f.next_child = 0

\* line 230-260
ProjectionVisit ==
    /\ pc = "projection"
    /\ stack # << >>
    /\ LET n == Top.node IN
       IF HandledByProjectionTraversal(Top)
       THEN \E out \in (IF settings.optimize_projection
                        THEN AggregateProjectionOutcomes(plan, n, fuel)
                        ELSE { [plan |-> plan, name |-> "", fuel |-> fuel] }) :
              /\ has_reading_from_mt' = SeenReading(has_reading_from_mt, plan[n].step)
              /\ plan' = out.plan
              /\ fuel' = out.fuel
              /\ applied_projection_names' =
                    IF out.name # ""
                    THEN applied_projection_names \cup {out.name}
                    ELSE applied_projection_names
              /\ calls' = calls
                    \o << Call("typeid_cast<ReadFromMergeTree>", n,
                               Bool(plan[n].step = "ReadFromMergeTree")) >>
                    \o When(settings.optimize_projection,
                            << Call("optimizeUseAggregateProjections", n, out.name) >>)
                    \o When(settings.aggregation_in_order,
                            << Call("optimizeAggregationInOrder", n, "") >>)
       ELSE UNCHANGED << has_reading_from_mt, plan, fuel,
                         applied_projection_names, calls >>
    /\ IF HasNextChild(plan', Top)
       THEN stack' = PushNextChild(stack, plan') /\ pc' = "projection"
       ELSE stack' = stack /\ pc' = "normal_projection"
    /\ UNCHANGED << settings, error, read_from_local_parallel_replica_plan >>
    /\ UNCHANGED << firstPassVars, componentVars >>

\* The modulus that stands for the width of size_t in the child cursor.
CursorWrap == 8

\* line 280: --stack.back().next_child, on an unsigned cursor.
RetryTopFrameMutPop(s) == Pop(s)

RetryTopFrame(s) ==
    SetTop(s, [s[Len(s)] EXCEPT !.next_child = (@ - 1) % CursorWrap])

\* line 262-282: a normal projection is applied.
NormalProjectionApplied ==
    /\ pc = "normal_projection"
    /\ settings.optimize_projection
    /\ NormalProjectionApplies(plan, stack, fuel)
    /\ \E nm \in ProjectionNames, s2 \in NormalProjectionStacks(stack) :
          /\ plan' = NormalProjectionPlan(plan, s2)
          /\ fuel' = fuel - 1
          /\ applied_projection_names' = applied_projection_names \cup {nm}
          /\ calls' = Append(calls, Call("optimizeUseNormalProjections", Top.node, nm))
          /\ IF /\ ProjectionBudgetExceeded(settings.max_optimizations_to_apply,
                                            applied_projection_names')
                /\ ProjectionBudgetThrows(settings.is_explain)
             THEN /\ pc' = "thrown"
                  /\ error' = "TOO_MANY_QUERY_PLAN_OPTIMIZATIONS"
                  /\ stack' = s2
             ELSE /\ pc' = "projection"
                  /\ error' = error
                  /\ stack' = RetryTopFrame(s2)
    /\ UNCHANGED << settings, has_reading_from_mt,
                    read_from_local_parallel_replica_plan >>
    /\ UNCHANGED << firstPassVars, componentVars >>

\* line 262-285: no normal projection is applied.
NormalProjectionNone ==
    /\ pc = "normal_projection"
    /\ calls' = calls
          \o When(settings.optimize_projection,
                  << Call("optimizeUseNormalProjections", Top.node, "") >>)
    /\ stack' = Pop(stack)
    /\ pc' = "projection"
    /\ UNCHANGED << plan, settings, error, fuel, applied_projection_names,
                    has_reading_from_mt, read_from_local_parallel_replica_plan >>
    /\ UNCHANGED << firstPassVars, componentVars >>

\* line 288-293
LazyBegin ==
    /\ pc = "projection"
    /\ stack = << >>
    /\ IF settings.optimize_lazy_materialization
       THEN stack' = << PlanFrame(Root) >> /\ pc' = "lazy"
       ELSE stack' = stack /\ pc' = "checks"
    /\ UNCHANGED << plan, settings, error, fuel, applied_projection_names,
                    has_reading_from_mt, read_from_local_parallel_replica_plan,
                    calls >>
    /\ UNCHANGED << firstPassVars, componentVars >>

\* line 300-301: if (optimizeLazyMaterialization(...)) break;
LazyBreaksMutNever(ok) == FALSE

LazyBreaks(ok) == ok

\* line 294-314
LazyTraversal ==
    /\ pc = "lazy"
    /\ stack # << >>
    /\ \E ok \in (IF Top.next_child = 0 /\ plan[Top.node].step \in {"Limit", "Sorting"}
                  THEN BOOLEAN ELSE {FALSE}) :
          /\ calls' = calls
                \o When(Top.next_child = 0,
                        << Call("optimizeLazyMaterialization", Top.node, Bool(ok)) >>)
          /\ IF LazyBreaks(ok)
             THEN pc' = "checks" /\ stack' = stack
             ELSE pc' = "lazy" /\ stack' = Advance(stack, plan)
    /\ UNCHANGED << plan, settings, error, fuel, applied_projection_names,
                    has_reading_from_mt, read_from_local_parallel_replica_plan >>
    /\ UNCHANGED << firstPassVars, componentVars >>

\* line 294: the lazy-materialization loop ends with an empty stack.
LazyEnd ==
    /\ pc = "lazy"
    /\ stack = << >>
    /\ pc' = "checks"
    /\ UNCHANGED << plan, settings, stack, error, fuel, applied_projection_names,
                    has_reading_from_mt, read_from_local_parallel_replica_plan,
                    calls >>
    /\ UNCHANGED << firstPassVars, componentVars >>

\* line 317-326
ForcedProjectionChecks ==
    /\ pc = "checks"
    /\ IF ProjectionNotUsed(settings, has_reading_from_mt, applied_projection_names)
       THEN pc' = "thrown" /\ error' = "PROJECTION_NOT_USED"
       ELSE IF NamedProjectionNotUsed(settings, has_reading_from_mt,
                                      applied_projection_names)
       THEN pc' = "thrown" /\ error' = "INCORRECT_DATA"
       ELSE pc' = "order" /\ error' = error
    /\ UNCHANGED << plan, settings, stack, fuel, applied_projection_names,
                    has_reading_from_mt, read_from_local_parallel_replica_plan,
                    calls >>
    /\ UNCHANGED << firstPassVars, componentVars >>

\* line 331: if (optimization_settings.query_plan_join_shard_by_pk_ranges)
JoinByShardsEnabledMutAlways(s) == TRUE

JoinByShardsEnabled(s) == s.query_plan_join_shard_by_pk_ranges

\* line 328-332
ApplyOrder ==
    /\ pc = "order"
    /\ calls' = calls
          \o << Call("applyOrder", Root, "") >>
          \o When(JoinByShardsEnabled(settings),
                  << Call("optimizeJoinByShards", Root, "") >>)
    /\ pc' = "returned"
    /\ UNCHANGED << plan, settings, stack, error, fuel, applied_projection_names,
                    has_reading_from_mt, read_from_local_parallel_replica_plan >>
    /\ UNCHANGED << firstPassVars, componentVars >>

SecondPassNext ==
    \/ FirstTraversal
    \/ HashTableCacheKeys
    \/ JoinTraversal
    \/ SpliceBegin
    \/ SpliceTraversal
    \/ RemoveRedundantSorting
    \/ ProjectionVisit
    \/ NormalProjectionApplied
    \/ NormalProjectionNone
    \/ LazyBegin
    \/ LazyTraversal
    \/ LazyEnd
    \/ ForcedProjectionChecks
    \/ ApplyOrder

SecondPassSpec == SecondPassInit /\ [][SecondPassNext]_vars

\* The second pass without a projection budget (max_optimizations_to_apply
\* = 0, normal mode): no run is cut short by the budget error, so the order
\* of the phases is seen to the end of every run.
UnlimitedSecondPassInit ==
    /\ SecondPassInit
    /\ settings.max_optimizations_to_apply = 0
    /\ ~settings.is_explain

UnlimitedSecondPassSpec == UnlimitedSecondPassInit /\ [][SecondPassNext]_vars

(***************************************************************************)
(* Properties of optimizeTreeSecondPass.                                   *)
(***************************************************************************)
\* A ReadFromMergeTree step was seen at the first visit of a node during the
\* projection traversal.
SawReading ==
    \E i \in DOMAIN calls :
        /\ calls[i].fn = "typeid_cast<ReadFromMergeTree>"
        /\ calls[i].result = "true"

\* The names the projection optimizations returned.
RecordedNames ==
    { calls[i].result :
        i \in { j \in DOMAIN calls :
                  /\ calls[j].fn \in { "optimizeUseAggregateProjections",
                                       "optimizeUseNormalProjections" }
                  /\ calls[j].result # "" } }

HasScan == \E n \in Linked(plan) : plan[n].step = "ReadFromMergeTree"

\* C9: the second pass ends with PROJECTION_NOT_USED exactly when
\* force_use_projection is set, a ReadFromMergeTree step was seen during the
\* projection traversal and no projection name was recorded; so it is raised
\* when projection optimization is disabled and the plan has such a scan, and
\* never once a name has been recorded.
C9_ProjectionNotUsedIff ==
    /\ Terminated =>
          (error = "PROJECTION_NOT_USED"
              <=> settings.force_use_projection /\ SawReading /\ RecordedNames = {})
    /\ (Terminated /\ settings.force_use_projection
            /\ ~settings.optimize_projection /\ HasScan)
          => error = "PROJECTION_NOT_USED"
    /\ RecordedNames # {} => error # "PROJECTION_NOT_USED"

C9_Witness ==
    /\ error = "PROJECTION_NOT_USED"
    /\ ~settings.optimize_projection
    /\ read_from_local_parallel_replica_plan

\* C10 as stated: whenever a projection name is required and was not applied,
\* the second pass fails, for every plan.
C10_NamedProjectionAlwaysEnforced ==
    (Terminated /\ settings.force_projection_name # ""
        /\ settings.force_projection_name \notin RecordedNames)
        => pc = "thrown"

\* C10 as amended: whenever a projection name is required, was not applied,
\* and a ReadFromMergeTree step was seen at the first visit of a node during
\* the projection traversal, the second pass fails.
C10_NamedProjectionEnforcedWhenScanSeen ==
    (Terminated /\ settings.force_projection_name # ""
        /\ settings.force_projection_name \notin RecordedNames
        /\ SawReading)
        => pc = "thrown"

C10_Witness ==
    /\ error = "INCORRECT_DATA"
    /\ settings.force_projection_name \notin RecordedNames
    /\ RecordedNames # {}

\* The error the two forced-projection checks of lines 317-326 call for, from
\* what the projection traversal recorded; is_explain is not read.
ForcedProjectionError ==
    IF settings.force_use_projection /\ SawReading /\ RecordedNames = {}
    THEN "PROJECTION_NOT_USED"
    ELSE IF /\ settings.force_projection_name # ""
            /\ SawReading
            /\ settings.force_projection_name \notin RecordedNames
    THEN "INCORRECT_DATA"
    ELSE "none"

FlippedExplain == [settings EXCEPT !.is_explain = ~@]

\* C11: the outcome of the two forced-projection checks does not depend on
\* is_explain: once the checks have run, the error is the one the recorded
\* scan and projection names call for, in explain mode as in normal mode, and
\* at the checks the same settings with is_explain flipped decide the same.
C11_ForcedChecksIgnoreExplain ==
    /\ (pc \in {"order", "returned"}
            \/ error \in {"PROJECTION_NOT_USED", "INCORRECT_DATA"})
          => error = ForcedProjectionError
    /\ pc = "checks" =>
          /\ ProjectionNotUsed(settings, has_reading_from_mt,
                               applied_projection_names)
               <=> ProjectionNotUsed(FlippedExplain, has_reading_from_mt,
                                     applied_projection_names)
          /\ NamedProjectionNotUsed(settings, has_reading_from_mt,
                                    applied_projection_names)
               <=> NamedProjectionNotUsed(FlippedExplain, has_reading_from_mt,
                                          applied_projection_names)

\* An explain run that applied another projection and fails the
\* named-projection check.
C11_Witness ==
    /\ settings.is_explain
    /\ error = "INCORRECT_DATA"
    /\ applied_projection_names # {}

ProjectionFns ==
    { "optimizeUseAggregateProjections", "optimizeUseNormalProjections" }

\* Call i applied a projection.
ProjectionAppliedAt(i) ==
    calls[i].fn \in ProjectionFns /\ calls[i].result # ""

\* The distinct projection names returned by the calls up to call i.
NamesUpTo(i) ==
    { calls[j].result : j \in { k \in 1..i : ProjectionAppliedAt(k) } }

\* Call i is a normal-projection application after which the budget check of
\* line 269 finds the budget exceeded.
BudgetExceededAt(i) ==
    /\ calls[i].fn = "optimizeUseNormalProjections"
    /\ calls[i].result # ""
    /\ settings.max_optimizations_to_apply > 0
    /\ Cardinality(NamesUpTo(i)) > settings.max_optimizations_to_apply

LastCallExceeded == calls # << >> /\ BudgetExceededAt(Len(calls))

\* A projection was applied after the budget had been found exceeded.
AppliedAfterExceeded ==
    \E i \in DOMAIN calls : \E j \in DOMAIN calls :
        i < j /\ BudgetExceededAt(i) /\ ProjectionAppliedAt(j)

\* C12 as stated: in explain mode no error is raised for the projection
\* budget and no projection optimization is applied once it is exceeded.
C12_ExplainTruncatesProjections ==
    settings.is_explain =>
        /\ error # "TOO_MANY_QUERY_PLAN_OPTIMIZATIONS"
        /\ ~AppliedAfterExceeded

\* C12 as amended: in explain mode no error is raised for the projection
\* budget, and the step that finds it exceeded goes on as after any other
\* projection application: back to the projection traversal with the frame
\* to re-run on the stack.
C12_ExplainIgnoresProjectionBudget ==
    /\ [](settings.is_explain => error # "TOO_MANY_QUERY_PLAN_OPTIMIZATIONS")
    /\ [][(settings.is_explain /\ calls' # calls /\ LastCallExceeded')
            => (pc' = "projection" /\ stack' # << >>)]_vars

\* An explain run that applied a projection after the budget was exceeded
\* and returned.
C12_Witness ==
    /\ settings.is_explain
    /\ AppliedAfterExceeded
    /\ pc = "returned"

\* The number of calls of optimizeUseNormalProjections that applied a
\* projection.
NormalApplications ==
    Cardinality({ i \in DOMAIN calls :
                    /\ calls[i].fn = "optimizeUseNormalProjections"
                    /\ calls[i].result # "" })

\* C13: in normal mode with budget K > 0 the pass has raised
\* TOO_MANY_QUERY_PLAN_OPTIMIZATIONS as soon as more than K normal
\* projections have been applied.
C13_ProjectionApplicationsBounded ==
    (/\ ~settings.is_explain
     /\ settings.max_optimizations_to_apply > 0
     /\ NormalApplications > settings.max_optimizations_to_apply)
        => error = "TOO_MANY_QUERY_PLAN_OPTIMIZATIONS"

\* The calls of function fn, as positions in calls.
CallsOf(fn) == { i \in DOMAIN calls : calls[i].fn = fn }

FirstTraversalFns ==
    { "optimizePrimaryKeyConditionAndLimit", "updateQueryConditionCache",
      "optimizePrewhere" }

JoinConversionFns ==
    { "optimizeJoinLogical", "convertLogicalJoinToPhysical",
      "optimizeJoinLegacy" }

\* C14: calculateHashTableCacheKeys is called on the root, at most once and
\* exactly once when the first traversal is over; by then the first traversal
\* has called its optimizations on every node, none of them is called later,
\* and every join conversion comes after it.
C14_CacheKeysBetweenFirstTraversalAndJoins ==
    /\ Cardinality(CallsOf("calculateHashTableCacheKeys")) <= 1
    /\ pc # "first" => CallsOf("calculateHashTableCacheKeys") # {}
    /\ \A h \in CallsOf("calculateHashTableCacheKeys") :
          /\ calls[h].node = Root
          /\ \A n \in Linked(settings.plan0) :
                \E i \in 1..(h - 1) :
                    /\ calls[i].fn = "optimizePrimaryKeyConditionAndLimit"
                    /\ calls[i].node = n
          /\ \A i \in DOMAIN calls :
                /\ calls[i].fn \in FirstTraversalFns => i < h
                /\ calls[i].fn \in JoinConversionFns => i > h
    /\ CallsOf("calculateHashTableCacheKeys") = {} =>
          \A i \in DOMAIN calls : calls[i].fn \notin JoinConversionFns

C14_Witness ==
    /\ pc = "returned"
    /\ settings.optimize_prewhere
    /\ \E i \in CallsOf("convertLogicalJoinToPhysical") : calls[i].result = "true"
    /\ CallsOf("optimizeJoinLegacy") # {}

\* The tree below node n of arena p: steps and ordered children, without the
\* positions of the nodes in the arena.
RECURSIVE Shape(_, _)
Shape(p, n) ==
    [ step |-> p[n].step,
      children |-> [ i \in DOMAIN p[n].children |-> Shape(p, p[n].children[i]) ] ]

\* The step of a node of the input plan when the splice traversal starts
\* (the join traversal has made logical joins physical).
StepBeforeSplice(step) == IF step = "JoinLogical" THEN "Join" ELSE step

\* The tree the splice traversal is to leave below node n of the input plan
\* p0: every local-replica read replaced by the local plan, the rest as is.
RECURSIVE SplicedShape(_, _)
SplicedShape(p0, n) ==
    IF p0[n].step = "ReadFromLocalParallelReplica"
    THEN Shape(LocalPlan, Root)
    ELSE [ step |-> StepBeforeSplice(p0[n].step),
           children |-> [ i \in DOMAIN p0[n].children |->
                            SplicedShape(p0, p0[n].children[i]) ] ]

SpliceDone == pc = "splice" /\ stack = << >>

\* C15: when the splice traversal is over every local-replica read leaf has
\* been replaced, in place, by the root of its local plan with the local
\* plan below it, and every other node keeps its step and its children list.
C15_SpliceReplacesLeafInPlace ==
    SpliceDone =>
        /\ Shape(plan, Root) = SplicedShape(settings.plan0, Root)
        /\ \A n \in DOMAIN settings.plan0 :
              IF settings.plan0[n].step = "ReadFromLocalParallelReplica"
              THEN Shape(plan, n) = Shape(LocalPlan, Root)
              ELSE /\ plan[n].children = settings.plan0[n].children
                   /\ plan[n].step = StepBeforeSplice(settings.plan0[n].step)

C15_Witness ==
    /\ SpliceDone
    /\ Len(settings.plan0) = 4
    /\ Len(plan) > 4
    /\ plan[4].step = "Sorting"

\* The calls made at the first visit of a node in the projection traversal.
ProjectionTraversalFns ==
    { "typeid_cast<ReadFromMergeTree>", "optimizeUseAggregateProjections",
      "optimizeAggregationInOrder", "optimizeUseNormalProjections" }

\* The local-replica read leaves of the input plan.
LocalReplicaLeaves ==
    { n \in Linked(settings.plan0) :
        settings.plan0[n].step = "ReadFromLocalParallelReplica" }

PastSplice == pc \notin {"first", "join", "splice"}

\* C16: tryRemoveRedundantSorting is called on the root at most once; once
\* the splice traversal is over it has been called exactly when a local plan
\* was spliced in and remove_redundant_sorting is on; the call comes after
\* every splice and before every call of the projection traversal.
C16_RedundantSortingAfterSplice ==
    /\ Cardinality(CallsOf("tryRemoveRedundantSorting")) <= 1
    /\ ~PastSplice => CallsOf("tryRemoveRedundantSorting") = {}
    /\ PastSplice =>
          (CallsOf("tryRemoveRedundantSorting") # {}
              <=> /\ settings.remove_redundant_sorting
                  /\ CallsOf("replaceNodeWithPlan") # {})
    /\ \A r \in CallsOf("tryRemoveRedundantSorting") :
          /\ calls[r].node = Root
          /\ Cardinality({ i \in CallsOf("replaceNodeWithPlan") : i < r })
                = Cardinality(LocalReplicaLeaves)
          /\ \A i \in DOMAIN calls :
                /\ calls[i].fn = "replaceNodeWithPlan" => i < r
                /\ calls[i].fn \in ProjectionTraversalFns => i > r

C16_Witness ==
    /\ pc = "returned"
    /\ CallsOf("tryRemoveRedundantSorting") # {}
    /\ CallsOf("optimizeUseNormalProjections") # {}

\* The calls of optimizeLazyMaterialization that reported success.
LazySuccesses ==
    { i \in CallsOf("optimizeLazyMaterialization") : calls[i].result = "true" }

\* C17: optimizeLazyMaterialization reports success at most once and is not
\* called again after a success; it is not called with
\* optimize_lazy_materialization off; every call of it comes after every
\* call of the projection traversal, when that traversal is over.
C17_LazyMaterializationAtMostOnce ==
    /\ Cardinality(LazySuccesses) <= 1
    /\ \A i \in LazySuccesses :
          \A j \in CallsOf("optimizeLazyMaterialization") : j <= i
    /\ ~settings.optimize_lazy_materialization
          => CallsOf("optimizeLazyMaterialization") = {}
    /\ CallsOf("optimizeLazyMaterialization") # {}
          => pc \in {"lazy", "checks", "order", "returned", "thrown"}
    /\ \A i \in CallsOf("optimizeLazyMaterialization") :
          \A j \in DOMAIN calls :
              calls[j].fn \in ProjectionTraversalFns => j < i

\* A success that left a node of the plan unvisited.
C17_Witness ==
    /\ pc = "returned"
    /\ LazySuccesses # {}
    /\ Cardinality(CallsOf("optimizeLazyMaterialization")) >= 2
    /\ \E n \in Linked(plan) :
          \A i \in CallsOf("optimizeLazyMaterialization") : calls[i].node # n

\* C18: applyOrder is called only when neither forced-projection check
\* fails, after every other call of the pass; optimizeJoinByShards is called
\* only after applyOrder and only with query_plan_join_shard_by_pk_ranges on;
\* a pass that fails a forced-projection check calls neither, and a pass that
\* returns has called applyOrder once and optimizeJoinByShards when enabled.
C18_OrderAfterForcedChecks ==
    /\ CallsOf("applyOrder") # {}
          => ForcedProjectionError = "none" /\ error = "none"
    /\ error \in {"PROJECTION_NOT_USED", "INCORRECT_DATA"}
          => CallsOf("applyOrder") = {} /\ CallsOf("optimizeJoinByShards") = {}
    /\ \A a \in CallsOf("applyOrder") :
          \A i \in DOMAIN calls :
              i > a => calls[i].fn = "optimizeJoinByShards"
    /\ \A j \in CallsOf("optimizeJoinByShards") :
          /\ settings.query_plan_join_shard_by_pk_ranges
          /\ \E a \in CallsOf("applyOrder") : a < j
    /\ pc = "returned" =>
          /\ Cardinality(CallsOf("applyOrder")) = 1
          /\ Cardinality(CallsOf("optimizeJoinByShards"))
                = IF settings.query_plan_join_shard_by_pk_ranges THEN 1 ELSE 0

\* A pass that had to apply a named projection, did, and went on to both
\* final steps.
C18_Witness ==
    /\ pc = "returned"
    /\ settings.force_projection_name # ""
    /\ SawReading
    /\ CallsOf("optimizeJoinByShards") # {}

\* The number of calls of fn with node n on top of the stack.
CallsOn(fn, n) == Cardinality({ i \in CallsOf(fn) : calls[i].node = n })

FirstTraversalDone == pc \notin {"first", "thrown"}

\* C20 as stated: when the first traversal is over each of its three
\* optimizations has been called exactly once on every node (optimizePrewhere
\* when enabled).
C20_FirstTraversalOncePerNode ==
    FirstTraversalDone =>
        \A n \in Linked(settings.plan0) :
            /\ CallsOn("optimizePrimaryKeyConditionAndLimit", n) = 1
            /\ CallsOn("updateQueryConditionCache", n) = 1
            /\ CallsOn("optimizePrewhere", n)
                  = IF settings.optimize_prewhere THEN 1 ELSE 0

\* C20 as amended: the three optimizations are called in every iteration of
\* the first loop, so each is called with node n on top of the stack once
\* more than n has children: once for a leaf, and again after each child of
\* an inner node.
C20_FirstTraversalOncePerIteration ==
    FirstTraversalDone =>
        \A n \in Linked(settings.plan0) :
            LET visits == Len(settings.plan0[n].children) + 1 IN
            /\ CallsOn("optimizePrimaryKeyConditionAndLimit", n) = visits
            /\ CallsOn("updateQueryConditionCache", n) = visits
            /\ CallsOn("optimizePrewhere", n)
                  = IF settings.optimize_prewhere THEN visits ELSE 0

\* A join root, on top of the stack three times.
C20_Witness ==
    /\ pc = "join"
    /\ settings.optimize_prewhere
    /\ CallsOn("optimizePrewhere", Root) = 3
    /\ CallsOn("optimizePrimaryKeyConditionAndLimit", Root) = 3

(***************************************************************************)
(* addStepsToBuildSets                                                     *)
(*                                                                         *)
(* addPlansForSets is not part of these sources: on a node whose step      *)
(* waits for its sets it turns the step into the one that creates them and *)
(* adds the root of one plan per set to the children of the node.          *)
(***************************************************************************)
MaxSets == 2

\* The plans of the two passes, with any of their one-child nodes waiting
\* for sets.
BuildSetsPlans ==
    UNION { { [ n \in DOMAIN p |->
                  IF n \in D THEN N("DelayedCreatingSets", p[n].children)
                  ELSE p[n] ] :
              D \in SUBSET { n \in DOMAIN p : Len(p[n].children) = 1 } } :
            p \in FirstPassPlans \cup SecondPassPlans }

\* The plans addPlansForSets can leave for node n of plan p.
AddPlansForSetsOutcomes(p, n) ==
    IF p[n].step = "DelayedCreatingSets"
    THEN { [p EXCEPT ![n] = N("CreatingSets",
                               p[n].children
                                 \o [i \in 1..k |-> Len(p) + i])]
             \o [i \in 1..k |-> N("CreatingSet", << >>)] :
           k \in 1..MaxSets }
    ELSE { p }

\* line 335-338
BuildSetsInit ==
    /\ settings \in { [plan0 |-> p] : p \in BuildSetsPlans }
    /\ plan = settings.plan0
    /\ stack = << PlanFrame(Root) >>
    /\ pc = "sets"
    /\ error = "none"
    /\ fuel = 0
    /\ rule_idx = 0
    /\ max_update_depth = 0
    /\ total_applied_optimizations = 0
    /\ applied = << >>
    /\ applied_projection_names = {}
    /\ has_reading_from_mt = FALSE
    /\ read_from_local_parallel_replica_plan = FALSE
    /\ calls = << >>
    /\ ComponentsIdle

\* line 346-352
BuildSetsDescend ==
    /\ pc = "sets"
    /\ stack # << >>
    /\ HasNextChild(plan, Top)
    /\ stack' = PushNextChild(stack, plan)
    /\ UNCHANGED << plan, settings, pc, error, fuel, applied_projection_names,
                    has_reading_from_mt, read_from_local_parallel_replica_plan,
                    calls >>
    /\ UNCHANGED << firstPassVars, componentVars >>

\* line 354-356
BuildSetsVisit ==
    /\ pc = "sets"
    /\ stack # << >>
    /\ ~HasNextChild(plan, Top)
    /\ plan' \in AddPlansForSetsOutcomes(plan, Top.node)
    /\ calls' = Append(calls, Call("addPlansForSets", Top.node,
                                   Bool(plan' # plan)))
    /\ stack' = Pop(stack)
    /\ UNCHANGED << settings, pc, error, fuel, applied_projection_names,
                    has_reading_from_mt, read_from_local_parallel_replica_plan >>
    /\ UNCHANGED << firstPassVars, componentVars >>

\* line 340, 357-358: the loop ends with the stack empty.
BuildSetsReturn ==
    /\ pc = "sets"
    /\ stack = << >>
    /\ pc' = "returned"
    /\ UNCHANGED << plan, settings, stack, error, fuel,
                    applied_projection_names, has_reading_from_mt,
                    read_from_local_parallel_replica_plan, calls >>
    /\ UNCHANGED << firstPassVars, componentVars >>

BuildSetsNext ==
    \/ BuildSetsDescend
    \/ BuildSetsVisit
    \/ BuildSetsReturn

BuildSetsSpec == BuildSetsInit /\ [][BuildSetsNext]_vars

(***************************************************************************)
(* Properties of addStepsToBuildSets.                                      *)
(***************************************************************************)
\* The nodes addPlansForSets was called on, in the order of the calls.
SetsVisits == [ i \in DOMAIN calls |-> calls[i].node ]

IsPrefix(s, t) == Len(s) <= Len(t) /\ SubSeq(t, 1, Len(s)) = s

\* C19: addPlansForSets is called on the nodes of the tree the function is
\* given in post-order, children in list order: at every moment the calls
\* made are a prefix of that order, and when the function returns, with an
\* empty stack, they are the whole of it, every node once.
C19_BuildSetsPostOrder ==
    /\ \A i \in DOMAIN calls : calls[i].fn = "addPlansForSets"
    /\ IsPrefix(SetsVisits, PostOrder(settings.plan0, Root))
    /\ pc = "returned" =>
          /\ stack = << >>
          /\ SetsVisits = PostOrder(settings.plan0, Root)

\* A returned traversal of a five-node plan in which sets were added twice.
C19_Witness ==
    /\ pc = "returned"
    /\ Len(settings.plan0) = 5
    /\ Cardinality({ i \in DOMAIN calls : calls[i].result = "true" }) >= 2

(***************************************************************************)
(* optimizeTreeFirstPass with a rule of arbitrary behaviour: every         *)
(* application may report any update depth, without end.  The history of   *)
(* the applications is not kept, and the budget counter, a size_t, wraps   *)
(* (CounterWrap stands for 2^64), so that a run that never ends is a cycle *)
(* of states.                                                              *)
(***************************************************************************)
CounterWrap == 8

\* The plans the pass with the unconstrained rule is started on.
UnboundedPlans ==
    { << N("ReadFromMergeTree", << >>) >>,
      << N("Limit", <<2>>), N("Filter", <<3>>), N("ReadFromMergeTree", << >>) >>,
      << N("Join", <<2, 3>>), N("ReadFromMergeTree", << >>),
         N("ReadFromMergeTree", << >>) >> }

UnboundedInit ==
    /\ settings \in [ optimize_plan : BOOLEAN,
                       is_explain : BOOLEAN,
                       max_optimizations_to_apply : 0..MaxBudget,
                       enabled : { {"anyRewrite"}, {"anyRewrite", "notInitialized"} },
                       plan0 : UnboundedPlans ]
    /\ plan = settings.plan0
    /\ fuel = 0
    /\ stack = << >>
    /\ pc = "start"
    /\ error = "none"
    /\ rule_idx = 0
    /\ max_update_depth = 0
    /\ total_applied_optimizations = 0
    /\ applied = << >>
    /\ applied_projection_names = {}
    /\ has_reading_from_mt = FALSE
    /\ read_from_local_parallel_replica_plan = FALSE
    /\ calls = << >>
    /\ ComponentsIdle

\* line 102-106, for the unconstrained rule.
ApplyUnboundedRule ==
    /\ pc = "rules"
    /\ rule_idx <= Len(Registry)
    /\ ~BudgetExceeded(settings.max_optimizations_to_apply, total_applied_optimizations)
    /\ \E update_depth \in 0..MaxDepth :
          /\ plan' = IF update_depth # 0
                     THEN [plan EXCEPT ![Top.node].step = "Rewritten"]
                     ELSE plan
          /\ total_applied_optimizations' =
                CountApplied(total_applied_optimizations, update_depth) % CounterWrap
          /\ max_update_depth' = Max(max_update_depth, update_depth)
    /\ rule_idx' = NextRule(rule_idx + 1, settings)
    /\ UNCHANGED << settings, stack, pc, error, fuel, applied >>
    /\ UNCHANGED << secondPassVars, componentVars >>

UnboundedNext ==
    \/ Start
    \/ Return
    \/ Descend
    \/ BeginRules
    \/ BudgetStop
    \/ ApplyUnboundedRule
    \/ EndRules

\* The function is sequential code: its next step is always taken.
UnboundedSpec == UnboundedInit /\ [][UnboundedNext]_vars /\ WF_vars(UnboundedNext)

\* C21 as stated: every run of the first pass ends, whatever the settings
\* and the rules.
C21_EveryRunEnds == <>Terminated

\* C21 as amended: a run of the first pass ends unless the budget is
\* unlimited (max_optimizations_to_apply = 0) and rule applications report a
\* change again and again without end.
C21_EndsUnlessUnlimitedAndCyclic ==
    \/ <>Terminated
    \/ (Budget = 0 /\ []<>(pc = "rules" /\ max_update_depth # 0))

\* The unlimited pass after more changes than any budget of the model
\* allows, about to visit the same node again.
C21_Witness ==
    /\ Budget = 0
    /\ pc = "rules"
    /\ rule_idx > Len(Registry)
    /\ max_update_depth # 0
    /\ total_applied_optimizations > MaxBudget + 1

\* C22: with a budget K > 0 the first pass ends whatever the rule reports,
\* and when it has ended at most K + 1 applications have reported a change.
C22_BudgetBoundsCyclicRules ==
    Budget > 0 => <>(Terminated /\ total_applied_optimizations <= Budget + 1)

\* The three ways to end with K + 1 changes: here the explain-mode return.
C22_Witness ==
    /\ Budget > 0
    /\ settings.is_explain
    /\ pc = "returned"
    /\ stack # << >>
    /\ total_applied_optimizations = Budget + 1

(***************************************************************************)
(* The three passes side by side: a run is a run of optimizeTreeFirstPass  *)
(* (normal mode), of optimizeTreeSecondPass (without a projection budget)  *)
(* or of addStepsToBuildSets.                                              *)
(***************************************************************************)
PassesInit ==
    \/ Init /\ settings.optimize_plan /\ ~settings.is_explain
    \/ UnlimitedSecondPassInit
    \/ BuildSetsInit

PassesNext ==
    \/ Next
    \/ SecondPassNext
    \/ BuildSetsNext

PassesSpec == PassesInit /\ [][PassesNext]_vars

\* The nodes of arena p that are reachable from the root.
RECURSIVE ReachableFrom(_, _, _)
ReachableFrom(p, S, k) ==
    LET T == S \cup UNION { Range(p[m].children) : m \in S } IN
    IF k = 0 \/ T = S THEN S ELSE ReachableFrom(p, T, k - 1)

Reachable(p) == ReachableFrom(p, {Root}, Len(p))

\* The places where node n is referenced as a child by a reachable node.
ChildRefs(p, n) ==
    { e \in UNION { { <<m, i>> : i \in DOMAIN p[m].children } : m \in Reachable(p) } :
        p[e[1]].children[e[2]] = n }

\* The plan reachable from the root is a tree: every child is a node of the
\* arena, the root is nobody's child and every other node is the child of
\* exactly one parent, at one position (hence no cycle).
IsTree(p) ==
    /\ Reachable(p) \subseteq DOMAIN p
    /\ \A n \in Reachable(p) :
          Cardinality(ChildRefs(p, n)) = IF n = Root THEN 0 ELSE 1

\* C23: at every point of the first pass, of the second pass and of the
\* set-building pass the plan reachable from the root is a tree.
C23_PlanIsATree == IsTree(plan)

\* The second pass after a splice and a normal projection.
C23_Witness ==
    /\ pc = "returned"
    /\ read_from_local_parallel_replica_plan
    /\ CallsOf("optimizeUseNormalProjections") # {}
    /\ applied_projection_names # {}
    /\ Len(plan) > Len(settings.plan0) + 1

(***************************************************************************)
(* More properties of optimizeTreeFirstPass (specification Spec).          *)
(***************************************************************************)
\* The first rule of the registry that is applied: every visit of a node
\* that gets to apply a rule starts with it.
FirstAppliedRule == Registry[NextRule(1, settings)].name

\* The applications that reported a change, as positions in applied.
ChangePositions == { i \in DOMAIN applied : applied[i].depth # 0 }

\* The last application that reported a change (0 when there is none).
LastChange ==
    IF ChangePositions = {} THEN 0
    ELSE CHOOSE c \in ChangePositions : \A i \in ChangePositions : i <= c

\* The position where the visit of application c starts.
VisitOf(c) ==
    LET starts == { i \in 1..c : applied[i].rule = FirstAppliedRule }
    IN  CHOOSE v \in starts : \A w \in starts : w <= v

\* The positions where the visits after application c start.
LaterVisits(c) ==
    { i \in (c + 1)..Len(applied) : applied[i].rule = FirstAppliedRule }

\* The maximum update depth reported in the visit of application c.
VisitDepth(c) ==
    LET later == LaterVisits(c)
        entries == { i \in VisitOf(c)..Len(applied) : \A w \in later : i < w }
    IN  CHOOSE d \in { applied[i].depth : i \in entries } :
            \A i \in entries : applied[i].depth <= d

\* Node n of plan p and its descendants at distance less than d, in
\* post-order.
RECURSIVE LimitedPostOrderFrom(_, _, _, _)
RECURSIVE LimitedPostOrder(_, _, _)
LimitedPostOrderFrom(p, cs, i, d) ==
    IF i > Len(cs) THEN << >>
    ELSE LimitedPostOrder(p, cs[i], d) \o LimitedPostOrderFrom(p, cs, i + 1, d)

LimitedPostOrder(p, n, d) ==
    (IF d > 1 THEN LimitedPostOrderFrom(p, p[n].children, 1, d - 1) ELSE << >>)
        \o << n >>

\* The re-traversal that the last change asked for.
ExpectedVisits ==
    LimitedPostOrder(plan, applied[VisitOf(LastChange)].node, VisitDepth(LastChange))

\* A visit has just applied its first rule.  The plan and the applications
\* change at no other step than the application of a rule, and a later
\* application of the same visit either changes nothing or becomes the last
\* change itself, so the visits are compared at these states.
VisitJustStarted ==
    /\ pc = "rules"
    /\ applied # << >>
    /\ applied[Len(applied)].rule = FirstAppliedRule
    /\ rule_idx = NextRule(NextRule(1, settings) + 1, settings)

\* The visits since the last change follow the re-traversal it asked for.
RetraversalFollows ==
    (VisitJustStarted /\ LastChange # 0) =>
        LET later == LaterVisits(LastChange)
            expected == ExpectedVisits
        IN  \A i \in later :
                LET j == Cardinality({ k \in later : k <= i })
                IN  j <= Len(expected) => applied[i].node = expected[j]

\* Between two loop iterations the frame of the node visited last is on the
\* stack exactly when its visit reported a change; then its depth limit is
\* the maximum reported, and the frames above it are its re-traversal: each
\* limit one less than the one below, none below 1.
FrameKeptAfterChange ==
    (pc = "loop" /\ applied # << >>) =>
        LET x == applied[Len(applied)].node IN
        IF max_update_depth # 0
        THEN \E i \in DOMAIN stack :
                /\ stack[i].node = x
                /\ stack[i].depth_limit = max_update_depth
                /\ (i = Len(stack) => stack[i].next_child = 0)
                /\ \A j \in (i + 1)..Len(stack) :
                      /\ stack[j].depth_limit = max_update_depth - (j - i)
                      /\ stack[j].depth_limit >= 1
        ELSE \A i \in DOMAIN stack : stack[i].node # x

\* C24: a visit of node X that reports maximum update depth N > 0 keeps X's
\* frame, with cursor 0 and depth limit N, and as long as no further change
\* is reported the next visits are those of X's descendants at distance less
\* than N, in post-order, and then X again; a visit that reports 0 pops the
\* frame.
C24_RedescentCoversReportedDepth ==
    /\ FrameKeptAfterChange
    /\ RetraversalFollows

\* A change of depth 2 at a node with one child, followed by the visit of
\* the child and the second visit of the node, which report nothing.
C24_Witness ==
    /\ pc = "loop"
    /\ LastChange # 0
    /\ max_update_depth = 0
    /\ VisitDepth(LastChange) = 2
    /\ Len(ExpectedVisits) = 2
    /\ Cardinality(LaterVisits(LastChange)) = 2

\* The registry entries that are applied, in registry order.
EnabledInOrder ==
    LET IsEnabled(o) == o.initialized /\ o.name \in settings.enabled
    IN  SelectSeq(Registry, IsEnabled)

\* The largest update depth among the applications at positions S.
MaxDepthOf(S) ==
    IF S = {} THEN 0
    ELSE CHOOSE d \in { applied[i].depth : i \in S } :
            \A i \in S : applied[i].depth <= d

\* The applications come in rounds of the enabled and initialized rules in
\* registry order, each round at one node.
AppliedInRounds ==
    LET m == Len(EnabledInOrder) IN
    \A i \in DOMAIN applied :
        /\ m > 0
        /\ applied[i].rule = EnabledInOrder[((i - 1) % m) + 1].name
        /\ ((i - 1) % m # 0 => applied[i].node = applied[i - 1].node)

\* The registry entries before rule_idx that are applied.
AppliedBefore(idx) ==
    { j \in DOMAIN Registry :
        /\ j < idx
        /\ Registry[j].initialized
        /\ Registry[j].name \in settings.enabled }

\* While a node is visited, the round in progress holds one application for
\* each enabled and initialized rule before rule_idx, all at the node of the
\* top frame, and max_update_depth is the largest depth they reported.
VisitIsOneRound ==
    pc = "rules" =>
        LET m == Len(EnabledInOrder)
            done == Cardinality(AppliedBefore(rule_idx))
            round == (Len(applied) - done + 1)..Len(applied)
        IN  /\ done <= Len(applied)
            /\ m > 0 => (Len(applied) - done) % m = 0
            /\ \A i \in round : applied[i].node = Top.node
            /\ max_update_depth = MaxDepthOf(round)

\* Between two visits the frame of the node visited last is kept exactly
\* when its round reported a change, with the largest reported depth as its
\* depth limit.
RedescentUsesMaximum ==
    (pc = "loop" /\ applied # << >>) =>
        LET m == Len(EnabledInOrder)
            round == (Len(applied) - m + 1)..Len(applied)
            x == applied[Len(applied)].node
        IN  IF MaxDepthOf(round) # 0
            THEN \E i \in DOMAIN stack :
                    /\ stack[i].node = x
                    /\ stack[i].depth_limit = MaxDepthOf(round)
            ELSE \A i \in DOMAIN stack : stack[i].node # x

\* C25: a visit applies every enabled and initialized rule once, in registry
\* order, also after a rule reported a change; no other rule is ever
\* applied; the depth of the re-descent is the maximum of the depths the
\* rules of the visit reported.
C25_VisitAppliesEveryRuleOnce ==
    /\ AppliedInRounds
    /\ VisitIsOneRound
    /\ RedescentUsesMaximum

\* A finished visit of three rules with a disabled or uninitialized entry
\* among the registry: the first rule reported the largest depth, the last
\* rule reported nothing.
C25_Witness ==
    /\ pc = "loop"
    /\ Len(EnabledInOrder) = 3
    /\ Len(applied) >= 3
    /\ applied[Len(applied) - 2].depth > 1
    /\ applied[Len(applied) - 1].depth = 0
    /\ applied[Len(applied)].depth = 0
    /\ \E i \in DOMAIN stack :
          /\ stack[i].node = applied[Len(applied)].node
          /\ stack[i].depth_limit = applied[Len(applied) - 2].depth

\* The number of applications before position i that reported a change.
ChangesBefore(i) ==
    Cardinality({ j \in 1..(i - 1) : applied[j].depth # 0 })

\* C26: total_applied_optimizations is one counter for the whole pass: at
\* every moment it is the number of applications so far that reported a
\* nonzero update depth, whatever the nodes they were made at, and every
\* application was made after the check of line 91 found the counter not
\* above a nonzero limit.
C26_CounterIsGlobal ==
    /\ total_applied_optimizations = Changes
    /\ \A i \in DOMAIN applied : Budget = 0 \/ ChangesBefore(i) <= Budget

\* Two changes at different nodes and an application that reported nothing
\* in between, and the counter at 2.
C26_Witness ==
    /\ total_applied_optimizations = 2
    /\ \E i, j, k \in DOMAIN applied :
          /\ i < j /\ j < k
          /\ applied[i].depth # 0
          /\ applied[j].depth = 0
          /\ applied[k].depth # 0
          /\ applied[i].node # applied[k].node

\* The nodes of the subtree of node n in plan p.
Subtree(p, n) == Range(PostOrder(p, n))

\* A step leaves the frames below the top frame as they are.
StepKeepsAncestors ==
    \A i \in 1..(Len(stack) - 1) : i <= Len(stack') /\ stack'[i] = stack[i]

\* A rule is applied to the node of the top frame and leaves the stack as
\* it is, so a node is processed only when no frame is above its own.
StepProcessesTop ==
    applied' # applied =>
        /\ stack' = stack
        /\ Len(applied') = Len(applied) + 1
        /\ applied'[Len(applied')].node = Top.node

\* A node outside the subtree of the node X of the last change that is
\* visited after it either had never been visited before, or is visited
\* again for a change reported, since its previous visit, at the node itself
\* or at one of its ancestors, none of which is in X's subtree.
NoRevisitOutsideSubtree ==
    (VisitJustStarted /\ LastChange # 0) =>
        LET inside == Subtree(plan, applied[LastChange].node) IN
        \A i \in LaterVisits(LastChange) :
            applied[i].node \notin inside =>
                \A j \in 1..(i - 1) :
                    (applied[j].node = applied[i].node
                        /\ applied[j].rule = FirstAppliedRule) =>
                        \E c \in j..(i - 1) :
                            /\ applied[c].depth # 0
                            /\ applied[c].node \notin inside
                            /\ applied[i].node \in Subtree(plan, applied[c].node)

\* C27: a change reported at node X does not restart the walk: no step
\* touches a frame below the top frame, rules are applied to the node of the
\* top frame only, and after the change no node outside X's subtree is
\* visited again because of it.
C27_ChangeDoesNotRestartFromRoot ==
    /\ []NoRevisitOutsideSubtree
    /\ [][StepKeepsAncestors /\ StepProcessesTop]_vars

\* The pass has ended after a change at a node other than the root, which
\* has a sibling that was visited before the change, and the root was
\* visited after it.
C27_Witness ==
    /\ pc = "returned"
    /\ stack = << >>
    /\ LastChange # 0
    /\ applied[LastChange].node # Root
    /\ applied[Len(applied)].node = Root
    /\ \E j \in 1..LastChange :
          applied[j].node \notin Subtree(plan, applied[LastChange].node)

(***************************************************************************)
(* More properties of optimizeTreeSecondPass (specification               *)
(* UnlimitedSecondPassSpec).                                               *)
(***************************************************************************)
\* Node n of plan p and its descendants, in pre-order.
RECURSIVE PreOrderFrom(_, _, _)
RECURSIVE PreOrder(_, _)
PreOrderFrom(p, cs, i) ==
    IF i > Len(cs) THEN << >>
    ELSE PreOrder(p, cs[i]) \o PreOrderFrom(p, cs, i + 1)

PreOrder(p, n) == << n >> \o PreOrderFrom(p, p[n].children, 1)

JoinTraversalFns ==
    JoinConversionFns \cup { "optimizeReadInOrder", "optimizeDistinctInOrder" }

\* The calls of the join traversal, in order.
JoinCalls ==
    LET IsJoinCall(c) == c.fn \in JoinTraversalFns
    IN  SelectSeq(calls, IsJoinCall)

\* What convertLogicalJoinToPhysical returned for node n.
HasJoinLogical(n) ==
    \E i \in CallsOf("convertLogicalJoinToPhysical") :
        calls[i].node = n /\ calls[i].result = "true"

\* The calls the join traversal makes for one node, in order.
JoinCallsFor(n) ==
    << Call("optimizeJoinLogical", n, ""),
       Call("convertLogicalJoinToPhysical", n, Bool(HasJoinLogical(n))) >>
    \o When(~HasJoinLogical(n), << Call("optimizeJoinLegacy", n, "") >>)
    \o When(settings.read_in_order, << Call("optimizeReadInOrder", n, "") >>)
    \o When(settings.distinct_in_order,
            << Call("optimizeDistinctInOrder", n, "") >>)

\* The calls the join traversal makes for the first k nodes of order.
RECURSIVE JoinCallsForAll(_, _)
JoinCallsForAll(order, k) ==
    IF k = 0 THEN << >>
    ELSE JoinCallsForAll(order, k - 1) \o JoinCallsFor(order[k])

JoinTraversalDone == pc \notin {"first", "join", "thrown"}

\* C28: the calls of the join traversal are, for the nodes in pre-order and
\* once for each node, optimizeJoinLogical and
\* convertLogicalJoinToPhysical, then optimizeJoinLegacy when the conversion
\* found no logical join, then optimizeReadInOrder when read_in_order is
\* set, then optimizeDistinctInOrder when distinct_in_order is set; a node
\* is handled when its frame is first on top, before a child is queued.
C28_JoinTraversalPreOrderOnce ==
    LET order == PreOrder(settings.plan0, Root)
        handled == Cardinality(CallsOf("optimizeJoinLogical"))
    IN  /\ handled <= Len(order)
        /\ JoinCalls = JoinCallsForAll(order, handled)
        /\ JoinTraversalDone => handled = Len(order)
        /\ pc = "join" =>
              \A i \in DOMAIN stack :
                  CallsOn("optimizeJoinLogical", stack[i].node)
                      = IF stack[i].next_child > 0 THEN 1 ELSE 0

\* The join traversal is over for a plan with a logical join that has two
\* children, with both in-order optimizations enabled.
C28_Witness ==
    /\ JoinTraversalDone
    /\ pc = "returned"
    /\ settings.read_in_order
    /\ settings.distinct_in_order
    /\ \E n \in DOMAIN settings.plan0 :
          /\ HasJoinLogical(n)
          /\ Len(settings.plan0[n].children) = 2
    /\ \E n \in DOMAIN settings.plan0 : CallsOn("optimizeJoinLegacy", n) = 1

\* The calls of the first traversal, in order.
FirstTraversalCalls ==
    LET IsFirstCall(c) == c.fn \in FirstTraversalFns
    IN  SelectSeq(calls, IsFirstCall)

\* The functions one iteration of the first loop calls, in order.
FirstTraversalRound ==
    << "optimizePrimaryKeyConditionAndLimit", "updateQueryConditionCache" >>
    \o When(settings.optimize_prewhere, << "optimizePrewhere" >>)

\* C29: optimizePrewhere is not called when optimize_prewhere is off; the
\* calls of the first traversal come in rounds of
\* optimizePrimaryKeyConditionAndLimit, updateQueryConditionCache and, when
\* enabled, optimizePrewhere, all for the same top frame, so every call of
\* optimizePrewhere directly follows the other two; and a frame has queued
\* as many children as rounds were run for it, each child after the round.
C29_PrewhereAfterKeyConditionAndCache ==
    LET round == FirstTraversalRound
        m == Len(round)
        made == FirstTraversalCalls
    IN  /\ ~settings.optimize_prewhere => CallsOf("optimizePrewhere") = {}
        /\ Len(made) % m = 0
        /\ \A i \in DOMAIN made :
              /\ made[i].fn = round[((i - 1) % m) + 1]
              /\ ((i - 1) % m # 0 => made[i].node = made[i - 1].node)
        /\ \A i \in CallsOf("optimizePrewhere") :
              /\ i > 2
              /\ calls[i - 1] = Call("updateQueryConditionCache", calls[i].node, "")
              /\ calls[i - 2] =
                    Call("optimizePrimaryKeyConditionAndLimit", calls[i].node, "")
        /\ pc = "first" =>
              \A i \in DOMAIN stack : \A k \in DOMAIN round :
                  CallsOn(round[k], stack[i].node) = stack[i].next_child

\* The first traversal is at a node with two children, the second being
\* queued, after optimizePrewhere ran twice for it.
C29_Witness ==
    /\ pc = "first"
    /\ settings.optimize_prewhere
    /\ \E i \in DOMAIN stack :
          /\ stack[i].next_child = 2
          /\ CallsOn("optimizePrewhere", stack[i].node) = 2

\* The calls a step adds.
NewCalls == SubSeq(calls', Len(calls) + 1, Len(calls'))

NewCallsOf(fn) == { i \in DOMAIN NewCalls : NewCalls[i].fn = fn }

\* A step of the projection traversal with the cursor of the top frame at 0
\* tries the aggregate projections exactly when optimize_projection is set
\* and the in-order aggregation exactly when aggregation_in_order is set; no
\* other step calls either.
AggregateStepAtCursorZero ==
    LET at_zero == pc = "projection" /\ stack # << >> /\ Top.next_child = 0 IN
    /\ NewCallsOf("optimizeUseAggregateProjections") # {}
          <=> (at_zero /\ settings.optimize_projection)
    /\ NewCallsOf("optimizeAggregationInOrder") # {}
          <=> (at_zero /\ settings.aggregation_in_order)

\* A step that tries the normal projections has a top frame whose cursor
\* has reached the number of its children, and optimize_projection is set.
NormalStepAfterChildren ==
    NewCallsOf("optimizeUseNormalProjections") # {} =>
        /\ settings.optimize_projection
        /\ stack # << >>
        /\ Top.next_child = Len(plan[Top.node].children)

\* C30: optimizeUseAggregateProjections is tried only on a top frame with
\* cursor 0 and optimizeUseNormalProjections only on a top frame whose
\* cursor has reached its number of children; neither is ever called when
\* optimize_projection is off; optimizeAggregationInOrder is called on a
\* top frame with cursor 0 exactly when aggregation_in_order is set.
C30_ProjectionAttemptsByCursor ==
    /\ [](~settings.optimize_projection =>
            /\ CallsOf("optimizeUseAggregateProjections") = {}
            /\ CallsOf("optimizeUseNormalProjections") = {})
    /\ [][AggregateStepAtCursorZero /\ NormalStepAfterChildren]_vars

\* Both projection optimizations were tried on a node with children, the
\* normal one with success, and the in-order aggregation ran with
\* optimize_projection set.
C30_Witness ==
    /\ pc = "returned"
    /\ settings.optimize_projection
    /\ settings.aggregation_in_order
    /\ CallsOf("optimizeAggregationInOrder") # {}
    /\ \E i \in CallsOf("optimizeUseAggregateProjections"),
          j \in CallsOf("optimizeUseNormalProjections") :
          /\ calls[i].node = calls[j].node
          /\ Len(settings.plan0[calls[i].node].children) > 0
    /\ \E j \in CallsOf("optimizeUseNormalProjections") : calls[j].result # ""

(***************************************************************************)
(* The retry after a normal projection (specification SecondPassSpec).     *)
(***************************************************************************)
\* The step applies a normal projection.
NormalProjectionStep ==
    /\ NewCallsOf("optimizeUseNormalProjections") # {}
    /\ calls'[Len(calls')].result # ""

\* After a step that applies a normal projection the name is in the applied
\* set, whether the budget check throws or not; when it does not throw, the
\* loop goes on with the frame the optimization left on top, which is kept
\* with its cursor one lower, and the frames below it are untouched.
RetryKeepsTopFrame ==
    NormalProjectionStep =>
        /\ calls'[Len(calls')].result \in applied_projection_names'
        /\ pc' \in {"projection", "thrown"}
        /\ pc' = "projection" =>
              /\ stack' # << >>
              /\ Len(stack') <= Len(stack)
              /\ \A i \in 1..(Len(stack') - 1) : stack'[i] = stack[i]
              /\ stack'[Len(stack')].node = stack[Len(stack')].node
              /\ stack'[Len(stack')].next_child
                    = stack[Len(stack')].next_child - 1

\* A loop step of the projection traversal works on the top frame: it keeps
\* the frames below it and the node of the top frame.
LoopStepWorksOnTop ==
    (pc = "projection" /\ stack # << >>) =>
        /\ Len(stack') >= Len(stack)
        /\ \A i \in 1..(Len(stack) - 1) : stack'[i] = stack[i]
        /\ stack'[Len(stack)].node = Top.node

\* C31: the application of a normal projection records the name before the
\* budget check and does not advance the traversal: the top frame is not
\* popped, its cursor goes back by one, and the next loop step works on it.
C31_NormalProjectionRetriesFrame ==
    [][RetryKeepsTopFrame /\ LoopStepWorksOnTop]_vars

\* A normal projection has just been applied and the loop is back at a frame
\* that has its last child to visit again.
C31_Witness ==
    /\ pc = "projection"
    /\ stack # << >>
    /\ calls # << >>
    /\ calls[Len(calls)].fn = "optimizeUseNormalProjections"
    /\ calls[Len(calls)].result # ""
    /\ Top.next_child + 1 = Len(plan[Top.node].children)

(***************************************************************************)
(* The second pass with nothing assumed about the stack that               *)
(* optimizeUseNormalProjections leaves behind: the driver hands it the     *)
(* stack by reference and decrements the cursor of whatever frame is on    *)
(* top afterwards.                                                         *)
(***************************************************************************)
\* Any nonempty part of the stack can be left, the whole stack included.
NormalProjectionAnyStacks(s) == { SubSeq(s, 1, k) : k \in 1..Len(s) }

\* line 262-282: a normal projection is applied to the reading step on top
\* of the stack; when frames were removed the child of the new top frame is
\* replaced, otherwise the step reads from the projection itself.
NormalProjectionAppliedAnyStack ==
    /\ pc = "normal_projection"
    /\ settings.optimize_projection
    /\ fuel > 0
    /\ plan[Top.node].step = "ReadFromMergeTree"
    /\ \E nm \in ProjectionNames, s2 \in NormalProjectionAnyStacks(stack) :
          /\ plan' = IF Len(s2) < Len(stack)
                     THEN NormalProjectionPlan(plan, s2)
                     ELSE plan
          /\ fuel' = fuel - 1
          /\ applied_projection_names' = applied_projection_names \cup {nm}
          /\ calls' = Append(calls, Call("optimizeUseNormalProjections", Top.node, nm))
          /\ IF /\ ProjectionBudgetExceeded(settings.max_optimizations_to_apply,
                                            applied_projection_names')
                /\ ProjectionBudgetThrows(settings.is_explain)
             THEN /\ pc' = "thrown"
                  /\ error' = "TOO_MANY_QUERY_PLAN_OPTIMIZATIONS"
                  /\ stack' = s2
             ELSE /\ pc' = "projection"
                  /\ error' = error
                  /\ stack' = RetryTopFrame(s2)
    /\ UNCHANGED << settings, has_reading_from_mt,
                    read_from_local_parallel_replica_plan >>
    /\ UNCHANGED << firstPassVars, componentVars >>

AnyStackNext ==
    \/ FirstTraversal
    \/ HashTableCacheKeys
    \/ JoinTraversal
    \/ SpliceBegin
    \/ SpliceTraversal
    \/ RemoveRedundantSorting
    \/ ProjectionVisit
    \/ NormalProjectionAppliedAnyStack
    \/ NormalProjectionNone
    \/ LazyBegin
    \/ LazyTraversal
    \/ LazyEnd
    \/ ForcedProjectionChecks
    \/ ApplyOrder

AnyStackSpec == UnlimitedSecondPassInit /\ [][AnyStackNext]_vars

CursorWrapped ==
    /\ pc = "projection"
    /\ stack # << >>
    /\ Top.next_child = CursorWrap - 1
    /\ plan[Top.node].children = << >>

(***************************************************************************)
(* The frame stack of optimizeTreeFirstPass (specification Spec).          *)
(***************************************************************************)
\* The number of nodes on the longest path from node n down to a leaf.
RECURSIVE Height(_, _)
Height(p, n) ==
    IF p[n].children = << >> THEN 1
    ELSE LET hs == { Height(p, p[n].children[i]) : i \in DOMAIN p[n].children }
         IN  1 + CHOOSE h \in hs : \A g \in hs : g <= h

\* C33: while the first pass runs, the stack is a path from the root: the
\* bottom frame holds the root, each frame below the top has a cursor c with
\* 1 <= c <= number of children and the frame above it holds its child
\* number c (child c-1 counting from 0), and the stack is not deeper than
\* the tree is high.
C33_StackIsPathFromRoot ==
    stack # << >> =>
        /\ stack[1].node = Root
        /\ \A i \in 1..(Len(stack) - 1) :
              /\ stack[i].next_child >= 1
              /\ stack[i].next_child <= Len(plan[stack[i].node].children)
              /\ stack[i + 1].node = plan[stack[i].node].children[stack[i].next_child]
        /\ Len(stack) <= Height(plan, Root)

\* The walk is in the second child of the root, two levels down, after a
\* rule has changed the plan.
C33_Witness ==
    /\ pc \in {"loop", "rules"}
    /\ Len(stack) >= 3
    /\ stack[1].next_child = 2
    /\ plan # settings.plan0

(***************************************************************************)
(* The two passes with optimize_plan on and off.  optimizeTreeSecondPass   *)
(* is given the same settings object; it never reads optimize_plan.        *)
(***************************************************************************)
PlanSwitchSettings ==
    { s @@ [optimize_plan |-> b] :
        s \in { t \in SecondPassSettings :
                  t.max_optimizations_to_apply = 0 /\ ~t.is_explain },
        b \in BOOLEAN }

PlanSwitchInit ==
    \/ Init
    \/ /\ settings \in PlanSwitchSettings
       /\ plan = settings.plan0
       /\ fuel = MaxProjectionFuel
       /\ stack = << PlanFrame(Root) >>
       /\ pc = "first"
       /\ error = "none"
       /\ rule_idx = 0
       /\ max_update_depth = 0
       /\ total_applied_optimizations = 0
       /\ applied = << >>
       /\ applied_projection_names = {}
       /\ has_reading_from_mt = FALSE
       /\ read_from_local_parallel_replica_plan = FALSE
       /\ calls = << >>
       /\ ComponentsIdle

PlanSwitchNext == Next \/ SecondPassNext

PlanSwitchSpec == PlanSwitchInit /\ [][PlanSwitchNext]_vars

\* The state belongs to a run of the first pass.
InFirstPass == "enabled" \in DOMAIN settings

\* With optimize_plan off the first pass does nothing: it is at its entry or
\* has returned, with an empty stack, no rule applied, the plan untouched
\* and no error.
FirstPassIsGuarded ==
    (InFirstPass /\ ~settings.optimize_plan) =>
        /\ pc \in {"start", "returned"}
        /\ stack = << >>
        /\ applied = << >>
        /\ plan = settings.plan0
        /\ total_applied_optimizations = 0
        /\ error = "none"

\* The second pass that has returned went through its phases for every node,
\* optimize_plan on or off.
SecondPassIsNotGuarded ==
    (~InFirstPass /\ pc = "returned") =>
        /\ \A n \in DOMAIN settings.plan0 :
              /\ CallsOn("optimizePrimaryKeyConditionAndLimit", n) >= 1
              /\ CallsOn("optimizeJoinLogical", n) = 1
        /\ CallsOf("calculateHashTableCacheKeys") # {}
        /\ CallsOf("applyOrder") # {}

\* C34: with optimize_plan off optimizeTreeFirstPass returns at once, applies
\* no rule and leaves the tree as it is, whatever rules are enabled and
\* whatever the budget; optimizeTreeSecondPass runs its phases whether
\* optimize_plan is on or off.
C34_OnlyFirstPassGuarded ==
    /\ FirstPassIsGuarded
    /\ SecondPassIsNotGuarded

\* The first pass has returned with optimize_plan off, although rules are
\* enabled that would change the plan and a budget is set.
C34_Witness ==
    /\ InFirstPass
    /\ ~settings.optimize_plan
    /\ pc = "returned"
    /\ "splitFilter" \in settings.enabled
    /\ \E n \in DOMAIN plan : plan[n].step = "Filter"
    /\ Budget > 0

\* The second pass has returned with optimize_plan off.
SecondPassRanWithPlanOff ==
    /\ ~InFirstPass
    /\ ~settings.optimize_plan
    /\ pc = "returned"
    /\ CallsOf("applyOrder") # {}

(***************************************************************************)
(* createMergeTreeReader (IMergeTreeReader.cpp).  The arguments are held   *)
(* in settings, the readers created are recorded in calls.                 *)
(***************************************************************************)
ReaderColumns == {"a", "b"}

\* The arguments: what read_info answers to isCompactPart and isWidePart,
\* the columns to read, whether the two caches are given (non-null), and
\* whether mark ranges are given.
ReaderArguments ==
    [ is_compact : BOOLEAN,
      is_wide : BOOLEAN,
      columns_to_read : SUBSET ReaderColumns,
      uncompressed_cache : BOOLEAN,
      mark_cache : BOOLEAN,
      has_mark_ranges : BOOLEAN ]

ReaderInit ==
    /\ settings \in ReaderArguments
    /\ pc = "createMergeTreeReader"
    /\ calls = << >>
    /\ ComponentsIdle
    /\ error = "none"
    /\ plan = << >>
    /\ stack = << >>
    /\ fuel = 0
    /\ rule_idx = 0
    /\ max_update_depth = 0
    /\ total_applied_optimizations = 0
    /\ applied = << >>
    /\ applied_projection_names = {}
    /\ has_reading_from_mt = FALSE
    /\ read_from_local_parallel_replica_plan = FALSE

\* line 473-501: the branch taken for a part.
PartShapeMutDefaultWide(is_compact, is_wide) ==
    IF is_compact THEN "compact" ELSE "wide"

PartShape(is_compact, is_wide) ==
    IF is_compact THEN "compact"
    ELSE IF is_wide THEN "wide"
    ELSE "unknown"

\* The reader a factory returns: its kind and the arguments it was given.
Reader(kind, args) == [fn |-> kind, args |-> args]

\* line 473-485
CreateCompact ==
    /\ pc = "createMergeTreeReader"
    /\ PartShape(settings.is_compact, settings.is_wide) = "compact"
    /\ calls' = Append(calls, Reader("createMergeTreeReaderCompact", settings))
    /\ pc' = "returned"
    /\ UNCHANGED << plan, settings, stack, error, fuel, applied_projection_names,
                    has_reading_from_mt, read_from_local_parallel_replica_plan >>
    /\ UNCHANGED << firstPassVars, componentVars >>

\* line 487-499
CreateWide ==
    /\ pc = "createMergeTreeReader"
    /\ PartShape(settings.is_compact, settings.is_wide) = "wide"
    /\ calls' = Append(calls, Reader("createMergeTreeReaderWide", settings))
    /\ pc' = "returned"
    /\ UNCHANGED << plan, settings, stack, error, fuel, applied_projection_names,
                    has_reading_from_mt, read_from_local_parallel_replica_plan >>
    /\ UNCHANGED << firstPassVars, componentVars >>

\* line 501
UnknownPartType ==
    /\ pc = "createMergeTreeReader"
    /\ PartShape(settings.is_compact, settings.is_wide) = "unknown"
    /\ error' = "LOGICAL_ERROR"
    /\ pc' = "thrown"
    /\ UNCHANGED << plan, settings, stack, fuel, applied_projection_names,
                    has_reading_from_mt, read_from_local_parallel_replica_plan,
                    calls >>
    /\ UNCHANGED << firstPassVars, componentVars >>

ReaderNext == CreateCompact \/ CreateWide \/ UnknownPartType

ReaderSpec == ReaderInit /\ [][ReaderNext]_vars

\* C35: when createMergeTreeReader is over, a compact part has got the
\* compact reader, a part that is not compact but wide the wide reader,
\* each made from the arguments of the call, and a part that is neither has
\* raised LOGICAL_ERROR with no reader created; before that nothing is
\* created.
C35_ReaderByPartShape ==
    /\ pc = "createMergeTreeReader" => (calls = << >> /\ error = "none")
    /\ pc # "createMergeTreeReader" =>
          IF settings.is_compact
          THEN /\ pc = "returned" /\ error = "none"
               /\ calls = << Reader("createMergeTreeReaderCompact", settings) >>
          ELSE IF settings.is_wide
          THEN /\ pc = "returned" /\ error = "none"
               /\ calls = << Reader("createMergeTreeReaderWide", settings) >>
          ELSE /\ pc = "thrown" /\ error = "LOGICAL_ERROR"
               /\ calls = << >>

\* A part that is neither compact nor wide has been refused.
C35_Witness ==
    /\ pc = "thrown"
    /\ error = "LOGICAL_ERROR"
    /\ ~settings.is_compact
    /\ ~settings.is_wide
    /\ calls = << >>

(***************************************************************************)
(* CurrentMemoryTracker (CurrentMemoryTracker.cpp).  Each thread has its   *)
(* ThreadStatus (current_thread, a null pointer for a thread that is not   *)
(* attached) with untracked_memory and untracked_memory_limit; all threads *)
(* share the MemoryTracker that getMemoryTracker() returns (null before    *)
(* the main thread is initialized).  A call that has to report to the      *)
(* shared tracker does so in a step of its own, so that calls of different *)
(* threads interleave.  The branch under MEMORY_TRACKER_DEBUG_CHECKS is    *)
(* compiled out.                                                           *)
(***************************************************************************)
MemoryThreads == {"t1", "t2"}

MaxAllocSize == 2

MaxUntrackedLimit == 2

MaxTrackerCalls == 3

ThreadStatus(attached, limit) ==
    [ attached |-> attached,
      untracked_memory |-> 0,
      untracked_memory_limit |-> limit,
      pc |-> "idle",
      throw_if_memory_exceeded |-> FALSE,
      size |-> 0,
      previous_untracked_memory |-> 0,
      current_untracked_memory |-> 0,
      untracked_at_entry |-> 0,
      last |-> "none" ]

TrackerInit ==
    /\ current_thread \in
          [ MemoryThreads ->
              { ThreadStatus(a, l) : a \in BOOLEAN, l \in 0..MaxUntrackedLimit } ]
    /\ memory_tracker \in { [present |-> b, amount |-> 0] : b \in BOOLEAN }
    /\ ledger = [balance |-> 0, calls |-> 0]
    /\ nullable = << >>
    /\ plan = << >>
    /\ settings = << >>
    /\ stack = << >>
    /\ pc = "threads"
    /\ error = "none"
    /\ rule_idx = 0
    /\ max_update_depth = 0
    /\ total_applied_optimizations = 0
    /\ fuel = 0
    /\ applied = << >>
    /\ applied_projection_names = {}
    /\ has_reading_from_mt = FALSE
    /\ read_from_local_parallel_replica_plan = FALSE
    /\ calls = << >>

\* The variables of the plan optimizer, which the tracker never touches.
optimizerVars ==
    << plan, settings, stack, pc, error, rule_idx, max_update_depth,
       total_applied_optimizations, fuel, applied, applied_projection_names,
       has_reading_from_mt, read_from_local_parallel_replica_plan, calls >>

\* line 22-34: getMemoryTracker() is the tracker of the thread's status if it
\* has one, else the total tracker once the main thread is initialized, else
\* null.
GetMemoryTracker(th) == th.attached \/ memory_tracker.present

\* line 57: the untracked amount is flushed to the tracker.
AllocFlushes(untracked, limit) == untracked > limit

\* line 114
FreeFlushesMutNever(untracked, limit) == FALSE

FreeFlushes(untracked, limit) == untracked < -limit

\* line 59-64: the amount handed to memory_tracker->allocImpl.
AllocFlushAmountMutSize(current_untracked_memory, size) == size

AllocFlushAmount(current_untracked_memory, size) == current_untracked_memory

\* line 68: current_thread->untracked_memory += previous_untracked_memory.
RestoreUntrackedMutLeave(untracked, previous) == untracked

RestoreUntracked(untracked, previous) == untracked + previous

\* The call of thread t is over.
Finished(th, result) ==
    [th EXCEPT !.pc = "idle", !.size = 0, !.throw_if_memory_exceeded = FALSE,
               !.previous_untracked_memory = 0, !.current_untracked_memory = 0,
               !.last = result]

\* The ledger keeps the sizes passed to the calls that returned: those of
\* alloc minus those of free.
Allocated(size) ==
    [ledger EXCEPT !.balance = @ + size, !.calls = @ + 1]

Freed(size) ==
    [ledger EXCEPT !.balance = @ - size, !.calls = @ + 1]

\* line 95-105 and 51-60, 79, 82: alloc or allocNoThrow is called and runs
\* up to its return or up to its call of the tracker.
Alloc(t) ==
    /\ current_thread[t].pc = "idle"
    /\ ledger.calls < MaxTrackerCalls
    /\ \E size \in 0..MaxAllocSize, throw_if_memory_exceeded \in BOOLEAN :
          LET th == [current_thread[t] EXCEPT
                        !.untracked_at_entry = current_thread[t].untracked_memory,
                        !.size = size,
                        !.throw_if_memory_exceeded = throw_if_memory_exceeded]
              untracked == th.untracked_memory + size
          IN  IF ~GetMemoryTracker(th)
              THEN /\ current_thread' =
                        [current_thread EXCEPT ![t] = Finished(th, "returned")]
                   /\ ledger' = Allocated(size)
              ELSE IF ~th.attached
              THEN /\ current_thread' = [current_thread EXCEPT ![t] =
                        [th EXCEPT !.pc = "alloc",
                                   !.current_untracked_memory = size]]
                   /\ ledger' = ledger
              ELSE IF AllocFlushes(untracked, th.untracked_memory_limit)
              THEN /\ current_thread' = [current_thread EXCEPT ![t] =
                        [th EXCEPT !.pc = "alloc",
                                   !.previous_untracked_memory = th.untracked_memory,
                                   !.current_untracked_memory =
                                        AllocFlushAmount(untracked, size),
                                   !.untracked_memory = 0]]
                   /\ ledger' = ledger
              ELSE /\ current_thread' = [current_thread EXCEPT ![t] =
                        Finished([th EXCEPT !.untracked_memory = untracked],
                                 "returned")]
                   /\ ledger' = Allocated(size)
    /\ UNCHANGED << memory_tracker, nullable, optimizerVars >>

\* line 64, 76: memory_tracker->allocImpl accounts the amount.
AllocTracked(t) ==
    /\ current_thread[t].pc = "alloc"
    /\ memory_tracker' = [memory_tracker EXCEPT
                             !.amount = @ + current_thread[t].current_untracked_memory]
    /\ ledger' = Allocated(current_thread[t].size)
    /\ current_thread' =
          [current_thread EXCEPT ![t] = Finished(current_thread[t], "returned")]
    /\ UNCHANGED << nullable, optimizerVars >>

\* line 66-70, 76: memory_tracker->allocImpl<true> throws and accounts
\* nothing; the exception leaves alloc.
AllocThrows(t) ==
    /\ current_thread[t].pc = "alloc"
    /\ current_thread[t].throw_if_memory_exceeded
    /\ LET th == current_thread[t] IN
       current_thread' = [current_thread EXCEPT ![t] =
          Finished([th EXCEPT !.untracked_memory =
                        IF th.attached
                        THEN RestoreUntracked(@, th.previous_untracked_memory)
                        ELSE @],
                   "thrown")]
    /\ ledger' = [ledger EXCEPT !.calls = @ + 1]
    /\ UNCHANGED << memory_tracker, nullable, optimizerVars >>

\* line 107-117, 127, 130: free is called and runs up to its return or up to
\* its call of the tracker.
Free(t) ==
    /\ current_thread[t].pc = "idle"
    /\ ledger.calls < MaxTrackerCalls
    /\ \E size \in 0..MaxAllocSize :
          LET th == [current_thread[t] EXCEPT
                        !.untracked_at_entry = current_thread[t].untracked_memory,
                        !.size = size]
              untracked == th.untracked_memory - size
          IN  IF ~GetMemoryTracker(th)
              THEN /\ current_thread' =
                        [current_thread EXCEPT ![t] = Finished(th, "returned")]
                   /\ ledger' = Freed(size)
              ELSE IF ~th.attached
              THEN /\ current_thread' = [current_thread EXCEPT ![t] =
                        [th EXCEPT !.pc = "free",
                                   !.current_untracked_memory = -size]]
                   /\ ledger' = ledger
              ELSE IF FreeFlushes(untracked, th.untracked_memory_limit)
              THEN /\ current_thread' = [current_thread EXCEPT ![t] =
                        [th EXCEPT !.pc = "free",
                                   !.current_untracked_memory = untracked,
                                   !.untracked_memory = 0]]
                   /\ ledger' = ledger
              ELSE /\ current_thread' = [current_thread EXCEPT ![t] =
                        Finished([th EXCEPT !.untracked_memory = untracked],
                                 "returned")]
                   /\ ledger' = Freed(size)
    /\ UNCHANGED << memory_tracker, nullable, optimizerVars >>

\* line 118, 124: memory_tracker->free(-untracked_memory).
FreeTracked(t) ==
    /\ current_thread[t].pc = "free"
    /\ memory_tracker' = [memory_tracker EXCEPT
                             !.amount = @ - (-current_thread[t].current_untracked_memory)]
    /\ ledger' = Freed(current_thread[t].size)
    /\ current_thread' =
          [current_thread EXCEPT ![t] = Finished(current_thread[t], "returned")]
    /\ UNCHANGED << nullable, optimizerVars >>

TrackerNext ==
    \E t \in MemoryThreads :
        \/ Alloc(t)
        \/ AllocTracked(t)
        \/ AllocThrows(t)
        \/ Free(t)
        \/ FreeTracked(t)

TrackerSpec == TrackerInit /\ [][TrackerNext]_vars

\* C36: the untracked amount of an attached thread with limit L is always
\* within [-L, L].
C36_UntrackedWithinLimit ==
    \A t \in MemoryThreads :
        current_thread[t].attached =>
            /\ current_thread[t].untracked_memory
                  <= current_thread[t].untracked_memory_limit
            /\ current_thread[t].untracked_memory
                  >= -current_thread[t].untracked_memory_limit

\* A thread is at its lower limit after it has flushed to the tracker.
C36_Witness ==
    \E t \in MemoryThreads :
        /\ current_thread[t].attached
        /\ current_thread[t].untracked_memory_limit = 1
        /\ current_thread[t].untracked_memory = -1
        /\ current_thread[t].pc = "idle"
        /\ memory_tracker.amount > 0

AllIdle == \A t \in MemoryThreads : current_thread[t].pc = "idle"

RECURSIVE SumUntracked(_)
SumUntracked(T) ==
    IF T = {} THEN 0
    ELSE LET t == CHOOSE x \in T : TRUE
         IN  current_thread[t].untracked_memory + SumUntracked(T \ {t})

C38_ThrowRestoresUntracked ==
    \A t \in MemoryThreads :
        ( /\ current_thread[t].attached
          /\ current_thread[t].pc = "idle"
          /\ current_thread[t].last = "thrown" )
        => current_thread[t].untracked_memory = current_thread[t].untracked_at_entry

\* The flush of a thread that had an untracked amount has thrown.
C38_Witness ==
    \E t \in MemoryThreads :
        /\ current_thread[t].attached
        /\ current_thread[t].pc = "idle"
        /\ current_thread[t].last = "thrown"
        /\ current_thread[t].untracked_at_entry # 0
        /\ current_thread[t].untracked_memory = current_thread[t].untracked_at_entry

(***************************************************************************)
(* ColumnNullable (ColumnNullable.cpp): a nested column and a null map,    *)
(* one UInt8 per row.  The nested column holds "default" in the rows that  *)
(* insertDefault made.  A Field is Null, a value of the nested type, or a  *)
(* value the nested column does not take: its insert throws before it      *)
(* changes anything and its tryInsert returns false.  The field last names  *)
(* the operation that ran last and what it returned.                       *)
(***************************************************************************)
MaxRows == 3

NestedValues == {"v", "w"}

Fields == {"Null", "v", "w", "mismatch"}

\* The columns that insertFrom and insertFromNotNullable read.
SrcNullable == [null_map |-> << 0, 1 >>, nested |-> << "v", "default" >>]

SrcNotNullable == << "v", "w" >>

Column(null_map, nested, last) ==
    [null_map |-> null_map, nested |-> nested, last |-> last]

RECURSIVE ConsistentColumns(_)
ConsistentColumns(n) ==
    IF n = 0 THEN { Column(<< >>, << >>, "none") }
    ELSE LET shorter == ConsistentColumns(n - 1)
         IN  shorter \cup
             { Column(Append(c.null_map, 0), Append(c.nested, v), "none") :
                 c \in { x \in shorter : Len(x.nested) = n - 1 }, v \in NestedValues }
             \cup
             { Column(Append(c.null_map, 1), Append(c.nested, "default"), "none") :
                 c \in { x \in shorter : Len(x.nested) = n - 1 } }

NullableInit ==
    /\ nullable \in ConsistentColumns(1)
    /\ current_thread = << >>
    /\ memory_tracker = << >>
    /\ ledger = << >>
    /\ plan = << >>
    /\ settings = << >>
    /\ stack = << >>
    /\ pc = "column"
    /\ error = "none"
    /\ rule_idx = 0
    /\ max_update_depth = 0
    /\ total_applied_optimizations = 0
    /\ fuel = 0
    /\ applied = << >>
    /\ applied_projection_names = {}
    /\ has_reading_from_mt = FALSE
    /\ read_from_local_parallel_replica_plan = FALSE
    /\ calls = << >>

\* The nested column takes the Field.
NestedAccepts(x) == x \in NestedValues

\* line 903-907
CheckConsistencyThrows(column) == Len(column.null_map) # Len(column.nested)

\* line 300: getNullMapData().resize_fill(getNullMapData().size() + length)
ResizeFillMutOne(null_map, length) == Append(null_map, 0)

ResizeFill(null_map, length) == null_map \o [i \in 1..length |-> 0]

\* line 264: the null map after a tryInsert that the nested column took.
TryInsertNullMap(null_map, taken) ==
    IF taken THEN Append(null_map, 0) ELSE null_map

NullableUnchanged ==
    UNCHANGED << current_thread, memory_tracker, ledger, optimizerVars >>

\* line 238-250
Insert ==
    /\ Len(nullable.nested) < MaxRows
    /\ \E x \in Fields :
          nullable' =
             IF x = "Null"
             THEN Column(Append(nullable.null_map, 1),
                         Append(nullable.nested, "default"), "insert")
             ELSE IF NestedAccepts(x)
             THEN Column(Append(nullable.null_map, 0),
                         Append(nullable.nested, x), "insert")
             ELSE [nullable EXCEPT !.last = "insert throws"]
    /\ NullableUnchanged

\* line 156-168
InsertData ==
    /\ Len(nullable.nested) < MaxRows
    /\ \E pos \in {"nullptr"} \cup NestedValues :
          nullable' =
             IF pos = "nullptr"
             THEN Column(Append(nullable.null_map, 1),
                         Append(nullable.nested, "default"), "insertData")
             ELSE Column(Append(nullable.null_map, 0),
                         Append(nullable.nested, pos), "insertData")
    /\ NullableUnchanged

\* line 252-266
TryInsert ==
    /\ Len(nullable.nested) < MaxRows
    /\ \E x \in Fields :
          nullable' =
             IF x = "Null"
             THEN Column(Append(nullable.null_map, 1),
                         Append(nullable.nested, "default"), "tryInsert true")
             ELSE LET taken == NestedAccepts(x)
                  IN  Column(TryInsertNullMap(nullable.null_map, taken),
                             IF taken THEN Append(nullable.nested, x)
                                      ELSE nullable.nested,
                             IF taken THEN "tryInsert true" ELSE "tryInsert false")
    /\ NullableUnchanged

\* line 269-277
InsertFrom ==
    /\ Len(nullable.nested) < MaxRows
    /\ \E n \in 1..Len(SrcNullable.nested) :
          nullable' = Column(Append(nullable.null_map, SrcNullable.null_map[n]),
                             Append(nullable.nested, SrcNullable.nested[n]),
                             "insertFrom")
    /\ NullableUnchanged

\* line 291-295
InsertFromNotNullable ==
    /\ Len(nullable.nested) < MaxRows
    /\ \E n \in 1..Len(SrcNotNullable) :
          nullable' = Column(Append(nullable.null_map, 0),
                             Append(nullable.nested, SrcNotNullable[n]),
                             "insertFromNotNullable")
    /\ NullableUnchanged

\* line 297-301; the range [start, start + length) lies in the source.
InsertRangeFromNotNullable ==
    \E start \in 0..Len(SrcNotNullable), length \in 0..Len(SrcNotNullable) :
        /\ start + length <= Len(SrcNotNullable)
        /\ Len(nullable.nested) + length <= MaxRows
        /\ nullable' =
              Column(ResizeFill(nullable.null_map, length),
                     nullable.nested \o SubSeq(SrcNotNullable, start + 1, start + length),
                     "insertRangeFromNotNullable")
        /\ NullableUnchanged

\* line 201-214: the byte at pos is pushed to the null map as it is.
DeserializeAndInsertFromArena ==
    /\ Len(nullable.nested) < MaxRows
    /\ \E val \in 0..2, serialized \in NestedValues :
          nullable' = Column(Append(nullable.null_map, val),
                             IF val = 0 THEN Append(nullable.nested, serialized)
                                        ELSE Append(nullable.nested, "default"),
                             "deserializeAndInsertFromArena")
    /\ NullableUnchanged

\* line 309-313; n is at most the size of the column.
PopBack ==
    /\ \E n \in 0..Len(nullable.nested) :
          nullable' =
             Column(SubSeq(nullable.null_map, 1, Len(nullable.null_map) - n),
                    SubSeq(nullable.nested, 1, Len(nullable.nested) - n),
                    "popBack")
    /\ NullableUnchanged

NullableNext ==
    \/ Insert
    \/ InsertData
    \/ TryInsert
    \/ InsertFrom
    \/ InsertFromNotNullable
    \/ InsertRangeFromNotNullable
    \/ DeserializeAndInsertFromArena
    \/ PopBack

NullableSpec == NullableInit /\ [][NullableNext]_vars

TryInsertReturnedFalse == TryInsert /\ nullable'.last = "tryInsert false"

\* C39: the null map and the nested column of a nullable column have the
\* same length after every operation, so that checkConsistency does not
\* throw, and a tryInsert that returns false changes neither of them.
C39_NullMapAndNestedSameLength ==
    /\ [](~CheckConsistencyThrows(nullable))
    /\ [][TryInsertReturnedFalse =>
             /\ nullable'.null_map = nullable.null_map
             /\ nullable'.nested = nullable.nested]_vars

\* tryInsert has returned false on a column that holds a NULL and a value.
C39_Witness ==
    /\ nullable.last = "tryInsert false"
    /\ Len(nullable.null_map) = 2
    /\ nullable.null_map[1] # nullable.null_map[2]
    /\ ~CheckConsistencyThrows(nullable)

====
